---------------------------- MODULE Spec2Model ----------------------------
(***************************************************************************)
(* Model of the PN532 host driver (crate pn532): the frame codec           *)
(* (_send / parse_response), the transaction engine (process,              *)
(* process_no_response, process_async) and the transport and timer the     *)
(* engine drives through the Interface and CountDown traits.               *)
(*                                                                         *)
(* Bytes are the integers 0..255; u8 arithmetic is taken modulo 256.       *)
(* Slices are sequences: the byte the code calls buf[i] is buf[i + 1].     *)
(***************************************************************************)
EXTENDS Integers, Sequences, FiniteSets, TLC

\* ---------------------------------------------------------------- bounds

\* Size of the frame buffer (the const generic N of Pn532; 32 by default).
N == 11
\* Largest response_len a caller passes (N - 9 + 1: the largest one overruns buf).
MaxResponseLen == 3
\* wait_ready polls reporting pending that are recorded per phase; further
\* pending polls still happen but leave the record as it is.
MaxPolls == 2
\* Largest payload of a response frame the modelled device produces.
MaxPayload == 2
\* SpecCodec: the largest request payload and the largest response_len.
CodecMaxData == 3
CodecMaxResponseLen == 2

\* ------------------------------------------------------------- constants

PREAMBLE == <<0, 0, 255>>
POSTAMBLE == 0
ACK == <<0, 0, 255, 0, 255, 0>>
HOST_TO_PN532 == 212
PN532_TO_HOST == 213

\* Command codes (requests.rs, enum Command), those the model sends.
GetFirmwareVersion == 2
InListPassiveTarget == 74
InDataExchange == 64
InSelect == 84
GetGeneralStatus == 4

Byte == 0..255

\* ----------------------------------------------------------------- state

VARIABLES
    buf,           \* Pn532.buf: the frame buffer, N bytes
    timer,         \* the CountDown timer: "stopped", "running" or "elapsed"
    expiry_pc,     \* where the call in flight stood when the timer elapsed
    op,            \* the call in flight (or just returned), "none" before any
    req,           \* the request last handed to _send: [command, data]
    sent_command,  \* sent_command of _process / receive_response
    response_len,  \* response_len of the call
    pc,            \* its position: idle, ack_poll, ack_timer, ack_read,
                   \* resp_poll, resp_timer, resp_read, done, panicked;
                   \* ack_wait, resp_wait: process_async returned Pending
    calls,         \* the transport and timer calls made so far, in order
    result,        \* what it returned
    wire,          \* bytes of the frame last read from that the read left
                   \* on the transport
    woken,         \* process_async: the waker was woken since the task
                   \* last returned Pending
    interface,     \* the Interface implementation looked at by itself:
                   \* "SPIInterface", "SPIInterfaceWithIrq", "I2CInterface",
                   \* "I2CInterfaceWithIrq", "SerialPortInterface"; "none"
                   \* where the driver is looked at
    irq,           \* SPIInterface.irq: "None" or "Some"
    msb_spi,       \* the crate is built with the feature msb-spi
    device,        \* the bytes the PN532 holds ready for the host
    hal,           \* the bus and pin operations of the last Interface call
    ret,           \* the last Interface call and what it returned
    readies,       \* Ready(Ok(())) reports since the device became ready
    decoded        \* the status byte last given to ErrorCode::try_from and
                   \* what it returned

\* The transport implementation and what lies behind it.
link == <<interface, irq, msb_spi, device, hal, ret, readies>>

vars ==
    <<buf, timer, expiry_pc, op, req, sent_command, response_len, pc, calls,
      result, wire, woken, link, decoded>>

\* ------------------------------------------------------------ u8 helpers

wrapping_add(a, b) == (a + b) % 256

\* !sum on a u8
not_u8(sum) == 255 - sum

\* the one's complement in place of the two's complement
to_checksum_ones(sum) == not_u8(sum)

\* protocol.rs: const fn to_checksum(sum: u8) -> u8 { (!sum).wrapping_add(1) }
to_checksum(sum) == wrapping_add(not_u8(sum), 1)

RECURSIVE wrapping_sum(_, _)
\* fold(acc, |s, b| s.wrapping_add(b)) over a slice
wrapping_sum(acc, s) ==
    IF s = <<>> THEN acc ELSE wrapping_sum(wrapping_add(acc, Head(s)), Tail(s))

\* s[from..to] of the code (0-based, to exclusive)
Slice(s, from, to) == SubSeq(s, from + 1, to)

\* n zero bytes
Zeros(n) == [i \in 1..n |-> 0]

\* The first n bytes of s, zero bytes where s has none.
Fit(s, n) == [i \in 1..n |-> IF i <= Len(s) THEN s[i] ELSE 0]

\* Every sequence over S of length n, and of length at most n.
SeqsOfLen(S, n) == [1..n -> S]
SeqsUpTo(S, n) == UNION {SeqsOfLen(S, k) : k \in 0..n}

\* ---------------------------------------------------------------- results

NoResult == [kind |-> "none", err |-> "none", e |-> "none", data |-> <<>>]
\* Ok(()) of send / receive_ack, Ok(&[u8]) of receive_response
Ok(d) == [kind |-> "Ok", err |-> "none", e |-> "none", data |-> d]
\* Err(Error::<x>) for the variants without a field
Err(x) == [kind |-> "Err", err |-> x, e |-> "none", data |-> <<>>]
\* A panic (index out of range): the call does not return.
Panic == [kind |-> "panic", err |-> "none", e |-> "none", data |-> <<>>]

\* a conversion that keeps the variant and loses the link error
InterfaceError_fixed(e) ==
    [kind |-> "Err", err |-> "InterfaceError", e |-> "e1", data |-> <<>>]

\* impl From<E> for Error<E>: what `?` makes of a link error e
InterfaceError(e) ==
    [kind |-> "Err", err |-> "InterfaceError", e |-> e, data |-> <<>>]

\* ------------------------------------------------------------ frame codec

\* frame_len without the frame identifier
frame_len_no_identifier(data) == wrapping_add(1, Len(data) % 256)

\* _send: let frame_len = 2 + data_len as u8 (u8 arithmetic)
frame_len_of(data) == wrapping_add(2, Len(data) % 256)

\* _send: data_sum = HOST_TO_PN532 + command + every data byte, wrapping
data_sum_of(r) ==
    wrapping_sum(wrapping_add(HOST_TO_PN532, r.command), r.data)

\* _send: the bytes put into buf[..9 + data_len] and handed to write
FrameOf(r) ==
    PREAMBLE
    \o <<frame_len_of(r.data), to_checksum(frame_len_of(r.data)),
         HOST_TO_PN532, r.command>>
    \o r.data
    \o <<to_checksum(data_sum_of(r)), POSTAMBLE>>

\* _send indexes buf up to 8 + data_len: out of range when 9 + data_len > N
SendPanics(r) == 9 + Len(r.data) > N

\* a _send that leaves the postamble to the zeroed buffer
BufAfterSend_no_postamble(b, r) ==
    [i \in 1..N |-> IF i <= 8 + Len(r.data) THEN FrameOf(r)[i] ELSE b[i]]

\* buf once _send has stored the frame (9 + data_len <= N)
BufAfterSend(b, r) ==
    [i \in 1..N |-> IF i <= 9 + Len(r.data) THEN FrameOf(r)[i] ELSE b[i]]

\* buf when _send panics: the stores made before the failing index.
\* buf[0..=6] are stored; copy_from_slice panics when 7 + data_len > N and
\* copies nothing; otherwise the data is copied and buf[7 + data_len] or
\* buf[8 + data_len] is the failing store.
BufAfterSendPanic(b, r) ==
    LET d == Len(r.data)
        stored == IF 7 + d > N THEN 7
                  ELSE IF 7 + d >= N THEN 7 + d
                  ELSE 8 + d
    IN  [i \in 1..N |-> IF i <= stored THEN FrameOf(r)[i] ELSE b[i]]

\* parse_response with the LEN tests made before the length checksum test
parse_response_len_first(response_buf, expected_response_command) ==
    LET frame_len == response_buf[4]
    IN  IF Slice(response_buf, 0, 3) # PREAMBLE THEN Err("BadResponseFrame")
        ELSE IF frame_len = 0 THEN Err("BadResponseFrame")
        ELSE IF frame_len = 1 THEN Err("Syntax")
        ELSE IF wrapping_add(frame_len, response_buf[5]) # 0
            THEN Err("CrcError")
        ELSE IF 5 + frame_len + 1 >= Len(response_buf) THEN Err("BufTooSmall")
        ELSE IF response_buf[5 + frame_len + 1 + 1] # POSTAMBLE
            THEN Err("BadResponseFrame")
        ELSE IF response_buf[6] # PN532_TO_HOST
                \/ response_buf[7] # expected_response_command
            THEN Err("BadResponseFrame")
        ELSE IF wrapping_sum(0, Slice(response_buf, 5, 5 + frame_len + 1)) # 0
            THEN Err("CrcError")
        ELSE Ok(Slice(response_buf, 7, 5 + frame_len))

\* parse_response without the length checksum test
parse_response_no_len_check(response_buf, expected_response_command) ==
    LET frame_len == response_buf[4]
    IN  IF Slice(response_buf, 0, 3) # PREAMBLE THEN Err("BadResponseFrame")
        ELSE IF frame_len = 0 THEN Err("BadResponseFrame")
        ELSE IF frame_len = 1 THEN Err("Syntax")
        ELSE IF 5 + frame_len + 1 >= Len(response_buf) THEN Err("BufTooSmall")
        ELSE IF response_buf[5 + frame_len + 1 + 1] # POSTAMBLE
            THEN Err("BadResponseFrame")
        ELSE IF response_buf[6] # PN532_TO_HOST
                \/ response_buf[7] # expected_response_command
            THEN Err("BadResponseFrame")
        ELSE IF wrapping_sum(0, Slice(response_buf, 5, 5 + frame_len + 1)) # 0
            THEN Err("CrcError")
        ELSE Ok(Slice(response_buf, 7, 5 + frame_len))

\* parse_response looking for the postamble in the last byte of the view
parse_response_postamble_last(response_buf, expected_response_command) ==
    LET frame_len == response_buf[4]
    IN  IF Slice(response_buf, 0, 3) # PREAMBLE THEN Err("BadResponseFrame")
        ELSE IF wrapping_add(frame_len, response_buf[5]) # 0
            THEN Err("CrcError")
        ELSE IF frame_len = 0 THEN Err("BadResponseFrame")
        ELSE IF frame_len = 1 THEN Err("Syntax")
        ELSE IF 5 + frame_len + 1 >= Len(response_buf) THEN Err("BufTooSmall")
        ELSE IF response_buf[Len(response_buf)] # POSTAMBLE
            THEN Err("BadResponseFrame")
        ELSE IF response_buf[6] # PN532_TO_HOST
                \/ response_buf[7] # expected_response_command
            THEN Err("BadResponseFrame")
        ELSE IF wrapping_sum(0, Slice(response_buf, 5, 5 + frame_len + 1)) # 0
            THEN Err("CrcError")
        ELSE Ok(Slice(response_buf, 7, 5 + frame_len))

\* parse_response without the data checksum test
parse_response_no_dcs_check(response_buf, expected_response_command) ==
    LET frame_len == response_buf[4]
    IN  IF Slice(response_buf, 0, 3) # PREAMBLE THEN Err("BadResponseFrame")
        ELSE IF wrapping_add(frame_len, response_buf[5]) # 0
            THEN Err("CrcError")
        ELSE IF frame_len = 0 THEN Err("BadResponseFrame")
        ELSE IF frame_len = 1 THEN Err("Syntax")
        ELSE IF 5 + frame_len + 1 >= Len(response_buf) THEN Err("BufTooSmall")
        ELSE IF response_buf[5 + frame_len + 1 + 1] # POSTAMBLE
            THEN Err("BadResponseFrame")
        ELSE IF response_buf[6] # PN532_TO_HOST
                \/ response_buf[7] # expected_response_command
            THEN Err("BadResponseFrame")
        ELSE Ok(Slice(response_buf, 7, 5 + frame_len))

\* parse_response with the direction and command bytes tested before the
\* postamble is looked for
parse_response_echo_first(response_buf, expected_response_command) ==
    LET frame_len == response_buf[4]
    IN  IF Slice(response_buf, 0, 3) # PREAMBLE THEN Err("BadResponseFrame")
        ELSE IF wrapping_add(frame_len, response_buf[5]) # 0
            THEN Err("CrcError")
        ELSE IF frame_len = 0 THEN Err("BadResponseFrame")
        ELSE IF frame_len = 1 THEN Err("Syntax")
        ELSE IF response_buf[6] # PN532_TO_HOST
                \/ response_buf[7] # expected_response_command
            THEN Err("BadResponseFrame")
        ELSE IF 5 + frame_len + 1 >= Len(response_buf) THEN Err("BufTooSmall")
        ELSE IF response_buf[5 + frame_len + 1 + 1] # POSTAMBLE
            THEN Err("BadResponseFrame")
        ELSE IF wrapping_sum(0, Slice(response_buf, 5, 5 + frame_len + 1)) # 0
            THEN Err("CrcError")
        ELSE Ok(Slice(response_buf, 7, 5 + frame_len))

\* parse_response returning the payload with the byte after it
parse_response_payload_and_dcs(response_buf, expected_response_command) ==
    LET frame_len == response_buf[4]
    IN  IF Slice(response_buf, 0, 3) # PREAMBLE THEN Err("BadResponseFrame")
        ELSE IF wrapping_add(frame_len, response_buf[5]) # 0
            THEN Err("CrcError")
        ELSE IF frame_len = 0 THEN Err("BadResponseFrame")
        ELSE IF frame_len = 1 THEN Err("Syntax")
        ELSE IF 5 + frame_len + 1 >= Len(response_buf) THEN Err("BufTooSmall")
        ELSE IF response_buf[5 + frame_len + 1 + 1] # POSTAMBLE
            THEN Err("BadResponseFrame")
        ELSE IF response_buf[6] # PN532_TO_HOST
                \/ response_buf[7] # expected_response_command
            THEN Err("BadResponseFrame")
        ELSE IF wrapping_sum(0, Slice(response_buf, 5, 5 + frame_len + 1)) # 0
            THEN Err("CrcError")
        ELSE Ok(Slice(response_buf, 7, 5 + frame_len + 1))

\* parse_response with the test for an empty frame made first
parse_response_zero_len_first(response_buf, expected_response_command) ==
    LET frame_len == response_buf[4]
    IN  IF Slice(response_buf, 0, 3) # PREAMBLE THEN Err("BadResponseFrame")
        ELSE IF frame_len = 0 THEN Err("BadResponseFrame")
        ELSE IF wrapping_add(frame_len, response_buf[5]) # 0
            THEN Err("CrcError")
        ELSE IF frame_len = 1 THEN Err("Syntax")
        ELSE IF 5 + frame_len + 1 >= Len(response_buf) THEN Err("BufTooSmall")
        ELSE IF response_buf[5 + frame_len + 1 + 1] # POSTAMBLE
            THEN Err("BadResponseFrame")
        ELSE IF response_buf[6] # PN532_TO_HOST
                \/ response_buf[7] # expected_response_command
            THEN Err("BadResponseFrame")
        ELSE IF wrapping_sum(0, Slice(response_buf, 5, 5 + frame_len + 1)) # 0
            THEN Err("CrcError")
        ELSE Ok(Slice(response_buf, 7, 5 + frame_len))

\* fn parse_response(response_buf, expected_response_command)
parse_response(response_buf, expected_response_command) ==
    LET frame_len == response_buf[4]
    IN  IF Slice(response_buf, 0, 3) # PREAMBLE THEN Err("BadResponseFrame")
        ELSE IF wrapping_add(frame_len, response_buf[5]) # 0
            THEN Err("CrcError")
        ELSE IF frame_len = 0 THEN Err("BadResponseFrame")
        ELSE IF frame_len = 1 THEN Err("Syntax")
        \* response_buf.get(5 + frame_len + 1)
        ELSE IF 5 + frame_len + 1 >= Len(response_buf) THEN Err("BufTooSmall")
        ELSE IF response_buf[5 + frame_len + 1 + 1] # POSTAMBLE
            THEN Err("BadResponseFrame")
        ELSE IF response_buf[6] # PN532_TO_HOST
                \/ response_buf[7] # expected_response_command
            THEN Err("BadResponseFrame")
        ELSE IF wrapping_sum(0, Slice(response_buf, 5, 5 + frame_len + 1)) # 0
            THEN Err("CrcError")
        ELSE Ok(Slice(response_buf, 7, 5 + frame_len))

\* the response command taken to be the command sent
expected_response_command_same(command) == command

\* receive_response: let expected_response_command = sent_command as u8 + 1
expected_response_command_of(command) == command + 1

\* a view that must be shorter than buf
ReceivePanics_strict(rl) == rl + 9 >= N

\* receive_response takes &mut self.buf[..response_len + 9]
ReceivePanics(rl) == rl + 9 > N

\* buf once receive_response has zero-filled its view and read into it
BufAfterReceive(b, bytes) ==
    [i \in 1..N |-> IF i <= Len(bytes) THEN bytes[i] ELSE b[i]]

\* ------------------------------------------- transport and timer (inputs)

\* Link errors (Interface::Error): two, so that one can be told from the other.
LinkErrors == {"e1", "e2"}

\* Interface::write returns Ok(()) or Err(e)
WriteOutcomes == {"ok"} \cup LinkErrors

\* Interface::wait_ready returns Pending, Ready(Ok(())) or Ready(Err(e))
WaitReadyOutcomes == {"pending", "ready"} \cup LinkErrors

\* Interface::read(buf) returns Err(e), or Ok(()) with buf filled from Frames
ReadOutcomes(Frames) ==
    {[res |-> "ok", bytes |-> f, e |-> "none"] : f \in Frames}
    \cup {[res |-> "err", bytes |-> <<>>, e |-> e] : e \in LinkErrors}

\* read(buf) with buf of n bytes from a device that sends frame f: buf gets the
\* first n bytes of f, idle (zero) bytes once f has ended; the bytes of f
\* beyond n are not read.
Delivered(f, n) == Fit(f, n)
Unread(f, n) == SubSeq(f, n + 1, Len(f))

\* A Normal Information Frame as the PN532 sends it: the answer to command c
\* (command byte c + 1) carrying payload p.
DeviceFrame(c, p) ==
    LET len == (Len(p) + 2) % 256
        sum == wrapping_sum((PN532_TO_HOST + c + 1) % 256, p)
    IN  PREAMBLE \o <<len, (256 - len) % 256, PN532_TO_HOST, c + 1>> \o p
        \o <<(256 - sum) % 256, POSTAMBLE>>

\* The syntax error frame and the NACK frame of the PN532.
ErrorFrame == <<0, 0, 255, 1, 255, 127, 129, 0>>
NackFrame == <<0, 0, 255, 255, 0, 0>>

\* What the device may deliver in the ACK slot.
AckReads == {ACK, NackFrame, ErrorFrame}

\* Payload bytes of the modelled device.
PayloadBytes == {1, 50}

\* What the device may deliver in the response slot after command c: an
\* answer to c, an answer to another command, an answer whose last payload
\* byte was damaged, the error frame, a second ACK.
DeviceFrames(c) ==
    {DeviceFrame(c, p) : p \in SeqsUpTo(PayloadBytes, MaxPayload)}
    \cup {DeviceFrame(c + 2, <<>>), [DeviceFrame(c, <<1>>) EXCEPT ![8] = 3],
          ErrorFrame, ACK}

\* Requests the callers make (requests.rs): GET_FIRMWARE_VERSION,
\* SELECT_TAG_1, INLIST_ONE_ISO_A_TARGET, ntag_read(4).
Requests ==
    {[command |-> GetFirmwareVersion, data |-> <<>>],
     [command |-> InSelect, data |-> <<1>>],
     [command |-> InListPassiveTarget, data |-> <<1, 0>>],
     [command |-> InDataExchange, data |-> <<1, 48, 4>>]}

NoRequest == [command |-> 0, data |-> <<>>]

\* ------------------------------------------------------ the record of calls

Call(c, bytes, len, res, e) ==
    [call |-> c, bytes |-> bytes, len |-> len, res |-> res, e |-> e]

\* timer.start(timeout)
TimerStartCall == Call("timer_start", <<>>, 0, "ok", "none")
\* timer.wait(): Ok(()) is "elapsed", Err(WouldBlock) is "would_block"
TimerWaitCall(res) == Call("timer_wait", <<>>, 0, res, "none")
\* interface.write(bytes)
WriteCall(bytes, w) ==
    Call("write", bytes, Len(bytes),
         IF w = "ok" THEN "ok" ELSE "err", IF w = "ok" THEN "none" ELSE w)
\* interface.wait_ready()
WaitReadyCall(w) ==
    Call("wait_ready", <<>>, 0,
         IF w \in LinkErrors THEN "err" ELSE w,
         IF w \in LinkErrors THEN w ELSE "none")
\* interface.read(buf) with buf.len() = len
ReadCall(len, out) == Call("read", out.bytes, len, out.res, out.e)

IsIO(c) == c.call \in {"write", "read"}
IsPending(c) == c.call = "wait_ready" /\ c.res = "pending"

\* Index of the last write or read in cs (0 when there is none).
LastIO(cs) ==
    LET S == {i \in 1..Len(cs) : IsIO(cs[i])}
    IN  IF S = {} THEN 0 ELSE CHOOSE i \in S : \A j \in S : j <= i

\* Pending polls recorded in the current phase (since the last write or read).
PendingPolls(cs) ==
    Cardinality({i \in (LastIO(cs) + 1)..Len(cs) : IsPending(cs[i])})

\* ------------------------------------------------------------------ calls

\* process and process_no_response need a CountDown timer; process_async is
\* defined for the driver whose timer is ().
Blocking == {"process", "process_no_response"}
Ops == Blocking \cup {"process_async"}

\* What an Interface call returned: the call, its argument (the frame of
\* write, the length of the buffer of read), Poll or Result as res ("ok",
\* "err", "pending", "ready"), the error e, and the bytes left in the
\* caller's buffer.
Returned(call, arg, res, e, out) ==
    [call |-> call, arg |-> arg, res |-> res, e |-> e, out |-> out]
NoReturn == Returned("none", <<>>, "none", "none", <<>>)

\* ErrorCode::try_from(value) and what it returned: the name of the code for
\* Ok(code), "Err(())" for the unit error; "none" before any call.
Decoded(value, res) == [value |-> value, result |-> res]
NotDecoded == Decoded(0, "none")

\* Pn532::new(interface, timer) / Pn532::new_async(interface): buf = [0; N]
Init ==
    /\ buf = Zeros(N)
    /\ timer \in {"stopped", "absent"}
    /\ expiry_pc = "none"
    /\ op = "none"
    /\ req = NoRequest
    /\ sent_command = 0
    /\ response_len = 0
    /\ pc = "idle"
    /\ calls = <<>>
    /\ result = NoResult
    /\ wire = <<>>
    /\ woken = FALSE
    /\ interface = "none"
    /\ irq = "None"
    /\ msb_spi = FALSE
    /\ device = <<>>
    /\ hal = <<>>
    /\ ret = NoReturn
    /\ readies = 0
    /\ decoded = NotDecoded

\* The call returns res.
Return(res) ==
    /\ pc' = "done"
    /\ result' = res

\* a call that checks response_len against the buffer before it writes
Begin_checks_response_len(o, r, rl) ==
    /\ o \in Blocking => timer # "absent"
    /\ o = "process_async" => timer = "absent"
    /\ op' = o
    /\ req' = r
    /\ sent_command' = r.command
    /\ response_len' = rl
    /\ timer' = IF o \in Blocking THEN "running" ELSE timer
    /\ expiry_pc' = "none"
    /\ wire' = wire
    /\ woken' = FALSE
    /\ UNCHANGED <<link, decoded>>
    /\ LET started == IF o \in Blocking THEN <<TimerStartCall>> ELSE <<>>
           sent == BufAfterSend(buf, r)
       IN  IF SendPanics(r)
           THEN /\ buf' = BufAfterSendPanic(buf, r)
                /\ calls' = started
                /\ pc' = "panicked"
                /\ result' = Panic
           ELSE IF o # "send" /\ rl + 9 > N
           THEN /\ buf' = buf
                /\ calls' = started
                /\ pc' = "panicked"
                /\ result' = Panic
           ELSE \E w \in WriteOutcomes :
                /\ buf' = sent
                /\ calls' = started
                       \o <<WriteCall(Slice(sent, 0, 9 + Len(r.data)), w)>>
                /\ IF w # "ok" THEN Return(InterfaceError(w))
                   ELSE IF o = "send" THEN Return(Ok(<<>>))
                   ELSE pc' = "ack_poll" /\ result' = NoResult

\* _process, _process_no_response, _process_async up to the first wait_ready:
\* timer.start(timeout) in the blocking calls, then _send(request), whose
\* failed write ends the call. With o = "send" it is send(request) alone.
\* The record of calls starts anew with each call.
Begin(o, r, rl) ==
    /\ o \in Blocking => timer # "absent"
    /\ o = "process_async" => timer = "absent"
    /\ op' = o
    /\ req' = r
    /\ sent_command' = r.command
    /\ response_len' = rl
    /\ timer' = IF o \in Blocking THEN "running" ELSE timer
    /\ expiry_pc' = "none"
    /\ wire' = wire
    /\ woken' = FALSE
    /\ UNCHANGED <<link, decoded>>
    /\ LET started == IF o \in Blocking THEN <<TimerStartCall>> ELSE <<>>
           sent == BufAfterSend(buf, r)
       IN  IF SendPanics(r)
           THEN /\ buf' = BufAfterSendPanic(buf, r)
                /\ calls' = started
                /\ pc' = "panicked"
                /\ result' = Panic
           ELSE \E w \in WriteOutcomes :
                /\ buf' = sent
                /\ calls' = started
                       \o <<WriteCall(Slice(sent, 0, 9 + Len(r.data)), w)>>
                /\ IF w # "ok" THEN Return(InterfaceError(w))
                   ELSE IF o = "send" THEN Return(Ok(<<>>))
                   ELSE pc' = "ack_poll" /\ result' = NoResult

\* A call on the driver as constructed.
Start(o, r, rl) ==
    /\ pc = "idle"
    /\ Begin(o, r, rl)

\* a poll that returns Pending without waking the waker
wake_by_ref_missing == FALSE

\* WaitReadyFuture::poll: cx.waker().wake_by_ref() on a pending poll; the
\* task is woken, the executor will poll it again.
wake_by_ref == TRUE

\* a future that is ready whatever wait_ready reports but an error
WaitReadyStep_async_no_wait(poll_pc, timer_pc, read_pc) ==
    /\ pc = poll_pc
    /\ \E w \in WaitReadyOutcomes :
        /\ calls' = IF w = "pending" /\ PendingPolls(calls) >= MaxPolls
                    THEN calls
                    ELSE Append(calls, WaitReadyCall(w))
        /\ woken' = woken
        /\ IF w = "pending" /\ op \in Blocking
           THEN /\ pc' = timer_pc
                /\ result' = result
           ELSE IF w \in {"pending", "ready"}
           THEN /\ pc' = read_pc
                /\ result' = result
           ELSE Return(InterfaceError(w))
    /\ UNCHANGED <<link, decoded>>
    /\ UNCHANGED <<buf, timer, expiry_pc, op, req, sent_command, response_len,
                   wire>>

\* a loop without the `?`: a poll that failed counts as ready
WaitReadyStep_error_is_ready(poll_pc, timer_pc, read_pc) ==
    /\ pc = poll_pc
    /\ \E w \in WaitReadyOutcomes :
        /\ calls' = IF w = "pending" /\ PendingPolls(calls) >= MaxPolls
                    THEN calls
                    ELSE Append(calls, WaitReadyCall(w))
        /\ woken' = IF op = "process_async" /\ w = "pending"
                    THEN wake_by_ref
                    ELSE woken
        /\ IF w = "pending"
           THEN /\ pc' = timer_pc
                /\ result' = result
           ELSE /\ pc' = read_pc
                /\ result' = result
    /\ UNCHANGED <<link, decoded>>
    /\ UNCHANGED <<buf, timer, expiry_pc, op, req, sent_command, response_len,
                   wire>>

\* a loop that consults the timer before it polls
WaitReadyStep_timer_first(poll_pc, timer_pc, read_pc) ==
    /\ pc = poll_pc
    /\ IF op \in Blocking /\ timer = "elapsed"
       THEN /\ calls' = Append(calls, TimerWaitCall("elapsed"))
            /\ woken' = woken
            /\ Return(Err(IF poll_pc = "ack_poll" THEN "TimeoutAck"
                          ELSE "TimeoutResponse"))
       ELSE \E w \in WaitReadyOutcomes :
            /\ calls' = IF w = "pending" /\ PendingPolls(calls) >= MaxPolls
                        THEN calls
                        ELSE Append(calls, WaitReadyCall(w))
            /\ woken' = IF op = "process_async" /\ w = "pending"
                        THEN wake_by_ref
                        ELSE woken
            /\ IF w = "pending"
               THEN /\ pc' = timer_pc
                    /\ result' = result
               ELSE IF w = "ready"
               THEN /\ pc' = read_pc
                    /\ result' = result
               ELSE Return(InterfaceError(w))
    /\ UNCHANGED <<link, decoded>>
    /\ UNCHANGED <<buf, timer, expiry_pc, op, req, sent_command, response_len,
                   wire>>

\* One round of `while self.interface.wait_ready()?.is_pending()` (blocking)
\* or one poll of WaitReadyFuture (process_async): pending leads to timer_pc,
\* the timer consult or, in process_async, the task suspended with its
\* waker woken; ready leads on to the read; an error ends the call.
WaitReadyStep(poll_pc, timer_pc, read_pc) ==
    /\ pc = poll_pc
    /\ \E w \in WaitReadyOutcomes :
        /\ calls' = IF w = "pending" /\ PendingPolls(calls) >= MaxPolls
                    THEN calls
                    ELSE Append(calls, WaitReadyCall(w))
        /\ woken' = IF op = "process_async" /\ w = "pending"
                    THEN wake_by_ref
                    ELSE woken
        /\ IF w = "pending"
           THEN /\ pc' = timer_pc
                /\ result' = result
           ELSE IF w = "ready"
           THEN /\ pc' = read_pc
                /\ result' = result
           ELSE Return(InterfaceError(w))
    /\ UNCHANGED <<link, decoded>>
    /\ UNCHANGED <<buf, timer, expiry_pc, op, req, sent_command, response_len,
                   wire>>

\* the consult with is_err() in place of is_ok()
TimerStep_inverted(timer_pc, poll_pc, timeout) ==
    /\ pc = timer_pc
    /\ IF timer # "elapsed"
       THEN /\ calls' = Append(calls, TimerWaitCall("would_block"))
            /\ Return(Err(timeout))
       ELSE /\ calls' = IF calls # <<>> /\ IsPending(calls[Len(calls)])
                        THEN Append(calls, TimerWaitCall("elapsed"))
                        ELSE calls
            /\ pc' = poll_pc
            /\ result' = result
    /\ UNCHANGED <<link, decoded>>
    /\ UNCHANGED <<buf, timer, expiry_pc, op, req, sent_command, response_len,
                 wire, woken>>

\* a loop that polls again without consulting the timer
TimerStep_unconsulted(timer_pc, poll_pc, timeout) ==
    /\ pc = timer_pc
    /\ calls' = calls
    /\ pc' = poll_pc
    /\ result' = result
    /\ UNCHANGED <<link, decoded>>
    /\ UNCHANGED <<buf, timer, expiry_pc, op, req, sent_command, response_len,
                 wire, woken>>

\* `if self.timer.wait().is_ok() { return Err(timeout) }` after a pending poll
TimerStep(timer_pc, poll_pc, timeout) ==
    /\ pc = timer_pc
    /\ IF timer = "elapsed"
       THEN /\ calls' = Append(calls, TimerWaitCall("elapsed"))
            /\ Return(Err(timeout))
       ELSE /\ calls' = IF calls # <<>> /\ IsPending(calls[Len(calls)])
                        THEN Append(calls, TimerWaitCall("would_block"))
                        ELSE calls
            /\ pc' = poll_pc
            /\ result' = result
    /\ UNCHANGED <<link, decoded>>
    /\ UNCHANGED <<buf, timer, expiry_pc, op, req, sent_command, response_len,
                 wire, woken>>

\* The executor polls the task again: it does so once the waker was woken.
Resume(wait_pc, poll_pc) ==
    /\ pc = wait_pc
    /\ woken
    /\ pc' = poll_pc
    /\ woken' = FALSE
    /\ UNCHANGED <<link, decoded>>
    /\ UNCHANGED <<buf, timer, expiry_pc, op, req, sent_command, response_len,
                   calls, result, wire>>

\* The first wait loop of _process / _process_no_response, the first
\* wait_ready_future().await of _process_async.
AckPoll ==
    /\ op \in Ops
    /\ WaitReadyStep("ack_poll",
                     IF op \in Blocking THEN "ack_timer" ELSE "ack_wait",
                     "ack_read")

\* process_async, suspended in its first await, is polled again.
AckResume ==
    /\ op = "process_async"
    /\ Resume("ack_wait", "ack_poll")

\* the first loop returning the error of the second
AckTimer_swapped ==
    /\ op \in Blocking
    /\ TimerStep("ack_timer", "ack_poll", "TimeoutResponse")

AckTimer ==
    /\ op \in Blocking
    /\ TimerStep("ack_timer", "ack_poll", "TimeoutAck")

\* an ack_buf with room for a leading ready byte
ack_buf_7 == Zeros(7)

\* receive_ack: let mut ack_buf = [0; 6]
ack_buf == Zeros(6)

\* a comparison of the first three bytes only
IsAck_preamble(bytes) == SubSeq(bytes, 1, 3) = SubSeq(ACK, 1, 3)

\* no comparison at all
IsAck_any(bytes) == TRUE

\* receive_ack: ack_buf != ACK is BadAck
IsAck(bytes) == bytes = ACK

\* receive_ack: read 6 bytes into ack_buf, compare with ACK. log is the
\* record of calls the read is added to; with carry_on the caller (_process,
\* _process_async) goes on to its second wait after Ok(()). The transport
\* has one of Frames to deliver.
ReceiveAckFrom(log, carry_on, Frames) ==
    \E out \in ReadOutcomes(Frames) :
        LET got == Delivered(out.bytes, Len(ack_buf))
        IN  /\ calls' = Append(log, ReadCall(Len(ack_buf),
                                             [out EXCEPT !.bytes = got]))
            /\ wire' = IF out.res = "err" THEN wire
                       ELSE Unread(out.bytes, Len(ack_buf))
            /\ IF out.res = "err" THEN Return(InterfaceError(out.e))
               ELSE IF ~IsAck(got) THEN Return(Err("BadAck"))
               ELSE IF carry_on THEN pc' = "resp_poll" /\ result' = result
               ELSE Return(Ok(<<>>))

\* receive_ack reading from a device that sends one of AckReads
ReceiveAckStep(log, carry_on) == ReceiveAckFrom(log, carry_on, AckReads)

\* every caller going on after the ACK
ReceiveAck_carries_on ==
    /\ pc = "ack_read"
    /\ ReceiveAckStep(calls, TRUE)
    /\ UNCHANGED <<link, decoded>>
    /\ UNCHANGED <<buf, timer, expiry_pc, op, req, sent_command, response_len,
                   woken>>

\* a countdown started afresh for the second phase
ReceiveAck_restarts_timer ==
    /\ pc = "ack_read"
    /\ ReceiveAckStep(IF op \in Blocking THEN Append(calls, TimerStartCall)
                      ELSE calls,
                      op # "process_no_response")
    /\ timer' = IF op \in Blocking THEN "running" ELSE timer
    /\ UNCHANGED <<link, decoded>>
    /\ UNCHANGED <<buf, expiry_pc, op, req, sent_command, response_len,
                   woken>>

\* self.receive_ack()? in _process and _process_async, self.receive_ack() as
\* the last expression of _process_no_response.
ReceiveAck ==
    /\ pc = "ack_read"
    /\ ReceiveAckStep(calls, op # "process_no_response")
    /\ UNCHANGED <<link, decoded>>
    /\ UNCHANGED <<buf, timer, expiry_pc, op, req, sent_command, response_len,
                   woken>>

\* The second wait loop of _process, the second await of _process_async.
RespPoll ==
    /\ op \in {"process", "process_async"}
    /\ WaitReadyStep("resp_poll",
                     IF op \in Blocking THEN "resp_timer" ELSE "resp_wait",
                     "resp_read")

\* process_async, suspended in its second await, is polled again.
RespResume ==
    /\ op = "process_async"
    /\ Resume("resp_wait", "resp_poll")

\* the second loop returning the error of the first
RespTimer_swapped ==
    /\ op = "process"
    /\ TimerStep("resp_timer", "resp_poll", "TimeoutAck")

RespTimer ==
    /\ op = "process"
    /\ TimerStep("resp_timer", "resp_poll", "TimeoutResponse")

\* a view that is the whole of buf
response_buf_len_whole(rl) == N

\* receive_response: let response_buf = &mut self.buf[..response_len + 9]
response_buf_len(rl) == rl + 9

\* receive_response(c, rl) reading from a device that sends one of Frames:
\* zero buf[..rl + 9], read into it, parse it. A failed read leaves the view
\* zeroed. log is the record of calls the read is added to.
ReceiveResponseStep(log, c, rl, Frames) ==
    IF ReceivePanics(rl)
    THEN /\ pc' = "panicked"
         /\ result' = Panic
         /\ calls' = log
         /\ UNCHANGED <<buf, wire>>
    ELSE \E out \in ReadOutcomes(Frames) :
         LET n == response_buf_len(rl)
             got == IF out.res = "err" THEN Zeros(n)
                    ELSE Delivered(out.bytes, n)
             filled == BufAfterReceive(buf, got)
         IN  /\ calls' = Append(log, ReadCall(n, [out EXCEPT !.bytes =
                               IF out.res = "err" THEN <<>> ELSE got]))
             /\ buf' = filled
             /\ wire' = IF out.res = "err" THEN wire
                        ELSE Unread(out.bytes, n)
             /\ IF out.res = "err" THEN Return(InterfaceError(out.e))
                ELSE Return(parse_response(Slice(filled, 0, n),
                                           expected_response_command_of(c)))

\* The last step of _process / _process_async:
\* self.receive_response(sent_command, response_len)
ReceiveResponse ==
    /\ pc = "resp_read"
    /\ ReceiveResponseStep(calls, sent_command, response_len,
                           DeviceFrames(sent_command))
    /\ UNCHANGED <<link, decoded>>
    /\ UNCHANGED <<timer, expiry_pc, op, req, sent_command, response_len,
                   woken>>

\* receive_response(c, rl) called by itself, between calls.
ReceiveResponseCall(c, rl, Frames) ==
    /\ pc \in {"idle", "done"}
    /\ op' = "receive_response"
    /\ sent_command' = c
    /\ response_len' = rl
    /\ ReceiveResponseStep(calls, c, rl, Frames)
    /\ UNCHANGED <<link, decoded>>
    /\ UNCHANGED <<timer, expiry_pc, req, woken>>

\* The countdown started by timer.start runs out (SysTimer::wait reports Ok
\* from then on). It can run out at any point of a blocking call.
TimerExpire ==
    /\ timer = "running"
    /\ pc \notin {"idle", "done", "panicked"}
    /\ timer' = "elapsed"
    /\ expiry_pc' = pc
    /\ UNCHANGED <<link, decoded>>
    /\ UNCHANGED <<buf, op, req, sent_command, response_len, pc, calls, result,
                   wire, woken>>

\* A caller starts one of the three calls.
Process ==
    \E o \in Ops, r \in Requests, rl \in 0..MaxResponseLen :
        /\ o = "process_no_response" => rl = 0
        /\ Start(o, r, rl)

Next ==
    \/ Process
    \/ AckPoll
    \/ AckTimer
    \/ AckResume
    \/ ReceiveAck
    \/ RespPoll
    \/ RespTimer
    \/ RespResume
    \/ ReceiveResponse
    \/ TimerExpire

Spec == Init /\ [][Next]_vars

\* The steps of the call in flight: the code runs on, every transport call
\* and timer call returning, and the executor polls the woken task.
Run ==
    \/ AckPoll
    \/ AckTimer
    \/ AckResume
    \/ ReceiveAck
    \/ RespPoll
    \/ RespTimer
    \/ RespResume
    \/ ReceiveResponse

\* The calls under a timer that runs out once started and a driver that
\* runs on.
LiveSpec == Init /\ [][Next]_vars /\ WF_vars(Run) /\ WF_vars(TimerExpire)

\* Pn532::new(interface, timer)
CodecInit == Init /\ timer = "stopped"

\* A poll of process_async that does not report pending: the transport is
\* ready (or has failed).
ReadyPoll ==
    /\ op = "process_async"
    /\ AckPoll \/ RespPoll
    /\ pc' \notin {"ack_wait", "resp_wait"}

\* process_async under an executor that polls the task again once it is
\* woken, and a transport that in each phase reports ready in the end.
AsyncLiveSpec ==
    Init /\ [][Next]_vars /\ WF_vars(Run) /\ SF_vars(ReadyPoll)

\* ------------------------------------------ the primitives, called one by one

\* The driver holds no call in flight: a caller may call any method.
AtRest == pc \in {"idle", "done"}

\* Commands and response_len handed to receive_response by itself (the
\* largest response_len overruns buf), and what the device then sends.
ManualCommands == {GetFirmwareVersion}
ManualLens == {0, 2, MaxResponseLen}
ManualFrames(c) == {DeviceFrame(c, <<>>), DeviceFrame(c, <<50, 1>>), ErrorFrame}

\* send(request)
SendCall ==
    /\ AtRest
    /\ \E r \in Requests : Begin("send", r, response_len)

\* a receive_ack that is made only once a frame was sent
ReceiveAckCall_after_send ==
    /\ AtRest
    /\ op = "send" /\ result = Ok(<<>>)
    /\ op' = "receive_ack"
    /\ ReceiveAckStep(<<>>, FALSE)
    /\ UNCHANGED <<link, decoded>>
    /\ UNCHANGED <<buf, timer, expiry_pc, req, sent_command, response_len,
                   woken>>

\* receive_ack() by itself
ReceiveAckCall ==
    /\ AtRest
    /\ op' = "receive_ack"
    /\ ReceiveAckStep(<<>>, FALSE)
    /\ UNCHANGED <<link, decoded>>
    /\ UNCHANGED <<buf, timer, expiry_pc, req, sent_command, response_len,
                   woken>>

\* receive_response(sent_command, response_len) by itself
ManualReceiveResponse ==
    /\ AtRest
    /\ op' = "receive_response"
    /\ \E c \in ManualCommands, rl \in ManualLens :
        /\ sent_command' = c
        /\ response_len' = rl
        /\ ReceiveResponseStep(<<>>, c, rl, ManualFrames(c))
    /\ UNCHANGED <<link, decoded>>
    /\ UNCHANGED <<timer, expiry_pc, req, woken>>

\* an abort that also clears the frame buffer
Abort_clears_buf ==
    /\ AtRest
    /\ op' = "abort"
    /\ buf' = Zeros(N)
    /\ \E w \in WriteOutcomes :
        /\ calls' = <<WriteCall(ACK, w)>>
        /\ Return(IF w = "ok" THEN Ok(<<>>) ELSE InterfaceError(w))
    /\ UNCHANGED <<link, decoded>>
    /\ UNCHANGED <<timer, expiry_pc, req, sent_command, response_len, wire,
                   woken>>

\* abort(): self.interface.write(&ACK)?; Ok(())
Abort ==
    /\ AtRest
    /\ op' = "abort"
    /\ \E w \in WriteOutcomes :
        /\ calls' = <<WriteCall(ACK, w)>>
        /\ Return(IF w = "ok" THEN Ok(<<>>) ELSE InterfaceError(w))
    /\ UNCHANGED <<link, decoded>>
    /\ UNCHANGED <<buf, timer, expiry_pc, req, sent_command, response_len,
                   wire, woken>>

ManualNext ==
    \/ SendCall
    \/ ReceiveAckCall
    \/ ManualReceiveResponse
    \/ Abort

\* The primitives in any order on a driver made by Pn532::new(interface, timer).
SpecManual == CodecInit /\ [][ManualNext]_vars

\* ---------------------------------------------- the driver, used again

\* Requests and response_len of the calls made one after another.
ReuseRequests ==
    {[command |-> GetFirmwareVersion, data |-> <<>>],
     [command |-> InListPassiveTarget, data |-> <<1, 0>>]}
ReuseLens == {0, 2}

\* The caller has the error of the call and the driver is at rest again:
\* nothing of the call is kept but what it left in buf (the struct has no
\* other field of its own) and the timer as it stands. The transport is as a
\* new driver would meet it: nothing unread is left on it.
Again ==
    /\ pc = "done"
    /\ result.kind = "Err"
    /\ pc' = "idle"
    /\ op' = "none"
    /\ req' = NoRequest
    /\ sent_command' = 0
    /\ response_len' = 0
    /\ expiry_pc' = "none"
    /\ calls' = <<>>
    /\ result' = NoResult
    /\ wire' = <<>>
    /\ woken' = FALSE
    /\ UNCHANGED <<link, decoded>>
    /\ UNCHANGED <<buf, timer>>

\* A caller starts a call on the driver at rest, new or used.
ProcessAgain ==
    \E o \in Ops, r \in ReuseRequests, rl \in ReuseLens :
        /\ o = "process_no_response" => rl = 0
        /\ Start(o, r, rl)

ReuseNext ==
    \/ ProcessAgain
    \/ Again
    \/ AckPoll
    \/ AckTimer
    \/ AckResume
    \/ ReceiveAck
    \/ RespPoll
    \/ RespTimer
    \/ RespResume
    \/ ReceiveResponse
    \/ TimerExpire

\* Calls one after another on one driver, each after an error of the last.
SpecReuse == Init /\ [][ReuseNext]_vars

\* ------------------------------------------------- the codec, exercised

\* Commands and request payloads handed to send.
CodecCommands == {GetFirmwareVersion, GetGeneralStatus}
CodecDataBytes == {0, 1, 255}
CodecRequests ==
    {[command |-> c, data |-> d] :
        c \in CodecCommands \cup {InListPassiveTarget},
        d \in SeqsUpTo(CodecDataBytes, CodecMaxData)}

\* Buffers handed to parse_response: every combination of a right or wrong
\* preamble, LEN, LCS, direction byte and command byte with every tail over
\* CodecTailBytes (which holds the data checksums of the frames that carry
\* no payload or a payload of zeros), and the device's special frames.
CodecPreambles == {PREAMBLE, <<1, 0, 255>>, <<0, 0, 254>>}
CodecLens == {0, 1, 2, 3, 4, 255}
CodecLcs(len) == {(256 - len) % 256, (257 - len) % 256}
CodecDirections == {PN532_TO_HOST, HOST_TO_PN532}
CodecEchoes == {c + 1 : c \in CodecCommands}
CodecTailBytes == {0, 1, 38, 40}

CodecHeads ==
    {p \o <<len, lcs, dir, echo>> :
        p \in CodecPreambles, len \in CodecLens,
        lcs \in UNION {CodecLcs(l) : l \in CodecLens},
        dir \in CodecDirections, echo \in CodecEchoes}

CodecBuffers(rl) ==
    {h \o t : h \in {x \in CodecHeads : x[5] \in CodecLcs(x[4])},
              t \in SeqsOfLen(CodecTailBytes, rl + 2)}
    \cup {Fit(f, rl + 9) : f \in {ErrorFrame, ACK, NackFrame}}

\* The request frame as a device would echo it: direction byte and command
\* byte rewritten to those of a response, and (redo) the data checksum
\* brought in line with the two rewritten bytes.
Echo(frame, redo) ==
    LET echoed == <<PN532_TO_HOST, frame[7] + 1>>
                  \o SubSeq(frame, 8, Len(frame) - 2)
    IN  [i \in 1..Len(frame) |->
            IF i = 6 THEN PN532_TO_HOST
            ELSE IF i = 7 THEN frame[7] + 1
            ELSE IF i = Len(frame) - 1 /\ redo
                THEN (256 - wrapping_sum(0, echoed)) % 256
            ELSE frame[i]]

\* send(request) on a new driver
CodecSend ==
    /\ pc = "idle"
    /\ \E r \in CodecRequests : Start("send", r, 0)

\* receive_response(c, rl) on a new driver, the device delivering b
CodecReceive ==
    /\ pc = "idle"
    /\ \E c \in CodecCommands, rl \in 0..CodecMaxResponseLen :
        ReceiveResponseCall(c, rl, CodecBuffers(rl))

\* receive_response after a send, the device echoing the request frame
CodecEcho ==
    /\ pc = "done"
    /\ op = "send"
    /\ result.kind = "Ok"
    /\ \E redo \in BOOLEAN :
        ReceiveResponseCall(req.command, Len(req.data),
                            {Echo(calls[Len(calls)].bytes, redo)})

\* byte with bit k inverted
FlipBit(byte, k) ==
    IF (byte \div (2 ^ k)) % 2 = 1 THEN byte - 2 ^ k ELSE byte + 2 ^ k

\* The buffers that differ from b in one byte: by one inverted bit, or (the
\* byte plus three) by more than one.
Damaged(b) ==
    UNION {{[b EXCEPT ![i] = v] :
               v \in {FlipBit(b[i], k) : k \in 0..7}
                     \cup {wrapping_add(b[i], 3)}} : i \in 1..Len(b)}

\* receive_response once more after it accepted a buffer, the device
\* delivering the same bytes but for one byte damaged on the way.
CodecDamage ==
    /\ pc = "done"
    /\ op = "receive_response"
    /\ result.kind = "Ok"
    /\ Len(calls) = 1
    /\ ReceiveResponseCall(sent_command, response_len,
                           Damaged(calls[1].bytes))

CodecNext ==
    \/ CodecSend
    \/ CodecReceive
    \/ CodecEcho
    \/ CodecDamage

SpecCodec == CodecInit /\ [][CodecNext]_vars

\* ------------------------------------------------------------ properties

\* The sum of the bytes of s, as an integer.
RECURSIVE SumSeq(_)
SumSeq(s) == IF s = <<>> THEN 0 ELSE Head(s) + SumSeq(Tail(s))

\* The two's complement of x in eight bits.
TwosComplement(x) == (256 - (x % 256)) % 256

\* The last call made.
LastCall == calls[Len(calls)]

\* C3: every frame handed to write is, for the request (c, data) of length D
\* being sent, exactly 9 + D bytes: 00 00 FF, LEN = D + 2, LCS = -LEN,
\* D4, c, data, DCS = -(D4 + c + sum of data), 00; so LEN + LCS = 0 and
\* D4 + c + data + DCS = 0 modulo 256; GET_FIRMWARE_VERSION gives
\* 00 00 FF 02 FE D4 02 2A 00 and INLIST_ONE_ISO_A_TARGET gives
\* 00 00 FF 04 FC D4 4A 01 00 E1 00.
C3_SendFrame ==
    \A i \in 1..Len(calls) :
        calls[i].call = "write" =>
            LET w == calls[i].bytes
                D == Len(req.data)
            IN  /\ 9 + D <= N
                /\ Len(w) = 9 + D
                /\ calls[i].len = 9 + D
                /\ SubSeq(w, 1, 3) = <<0, 0, 255>>
                /\ w[4] = D + 2
                /\ w[5] = TwosComplement(w[4])
                /\ w[6] = 212
                /\ w[7] = req.command
                /\ SubSeq(w, 8, 7 + D) = req.data
                /\ w[8 + D] = TwosComplement(212 + req.command + SumSeq(req.data))
                /\ w[9 + D] = 0
                /\ (w[4] + w[5]) % 256 = 0
                /\ SumSeq(SubSeq(w, 6, 8 + D)) % 256 = 0
                /\ (req.command = 2 /\ D = 0)
                       => w = <<0, 0, 255, 2, 254, 212, 2, 42, 0>>
                /\ (req.command = 74 /\ req.data = <<1, 0>>)
                       => w = <<0, 0, 255, 4, 252, 212, 74, 1, 0, 225, 0>>

\* C3 witness: send has written the frame of a request whose payload fills
\* the buffer and whose checksum sum wrapped.
C3_Witness ==
    /\ op = "send"
    /\ pc = "done"
    /\ result = Ok(<<>>)
    /\ req.data = <<255, 255>>
    /\ LastCall.call = "write"
    /\ Len(LastCall.bytes) = N

\* A state in which receive_response has read b and returned.
Parsed ==
    /\ pc = "done"
    /\ calls # <<>>
    /\ LastCall.call = "read"
    /\ LastCall.res = "ok"
    /\ LastCall.len = response_len + 9

\* The six conditions of acceptance on a buffer b for sent command c.
PreambleOk(b) == b[1] = 0 /\ b[2] = 0 /\ b[3] = 255
LcsOk(b) == (b[4] + b[5]) % 256 = 0
PostambleThere(b) == 6 + b[4] < Len(b)
PostambleOk(b) == PostambleThere(b) /\ b[6 + b[4] + 1] = 0
EchoOk(b, c) == b[6] = 213 /\ b[7] = c + 1
DcsOk(b) == SumSeq(SubSeq(b, 6, 6 + b[4])) % 256 = 0

Accepted(b, c) ==
    /\ PreambleOk(b)
    /\ LcsOk(b)
    /\ b[4] # 0 /\ b[4] # 1
    /\ PostambleOk(b)
    /\ EchoOk(b, c)
    /\ DcsOk(b)

\* C4: the buffer of response_len + 9 bytes read by receive_response is
\* accepted if and only if the six conditions hold, and the payload returned
\* is then the bytes at indices [7, 5 + LEN).
C4_ParseIff ==
    Parsed =>
        LET b == LastCall.bytes
        IN  /\ Len(b) = response_len + 9
            /\ (result.kind = "Ok") <=> Accepted(b, sent_command)
            /\ result.kind = "Ok" => result.data = SubSeq(b, 8, 5 + b[4])
            /\ result.kind # "Ok" => result.kind = "Err"

\* C4 witness: a frame with a two-byte payload was accepted.
C4_Witness ==
    /\ Parsed
    /\ op = "receive_response"
    /\ result.kind = "Ok"
    /\ Len(result.data) = 2

\* The error of the first check that fails, in the order of the claim.
FirstFailure(b, c) ==
    IF ~PreambleOk(b) THEN "BadResponseFrame"
    ELSE IF ~LcsOk(b) THEN "CrcError"
    ELSE IF b[4] = 0 THEN "BadResponseFrame"
    ELSE IF b[4] = 1 THEN "Syntax"
    ELSE IF ~PostambleThere(b) THEN "BufTooSmall"
    ELSE IF ~PostambleOk(b) THEN "BadResponseFrame"
    ELSE IF ~EchoOk(b, c) THEN "BadResponseFrame"
    ELSE IF ~DcsOk(b) THEN "CrcError"
    ELSE "none"

\* C5: a rejected buffer is rejected with the error of the first failing
\* check, in the order preamble, length checksum, LEN = 0, LEN = 1, postamble
\* missing, postamble wrong, direction or command echo, data checksum; a
\* buffer with a valid preamble, LEN = 1 and LCS = FF gives Syntax whatever
\* else it holds and whatever command was sent.
C5_FirstFailure ==
    Parsed =>
        LET b == LastCall.bytes
        IN  /\ result.err = FirstFailure(b, sent_command)
            /\ (PreambleOk(b) /\ b[4] = 1 /\ b[5] = 255)
                   => result = Err("Syntax")

\* C5 witness: the error frame 00 00 FF 01 FF 7F 81 00 was read and rejected
\* as Syntax.
C5_Witness ==
    /\ Parsed
    /\ op = "receive_response"
    /\ SubSeq(LastCall.bytes, 1, 8) = <<0, 0, 255, 1, 255, 127, 129, 0>>
    /\ result = Err("Syntax")

\* A state in which receive_response has read back the frame just written by
\* send, with the direction byte and the command byte rewritten and the data
\* checksum redone (redo) or not.
EchoRead(redo) ==
    /\ Parsed
    /\ op = "receive_response"
    /\ Len(calls) = 2
    /\ calls[1].call = "write"
    /\ calls[2].bytes = Echo(calls[1].bytes, redo)
    /\ sent_command = req.command
    /\ response_len = Len(req.data)

\* C6 as stated: the frame built by send, with its direction byte set to D5
\* and its command byte to cmd + 1, parses to the payload sent.
C6_RoundTripAsStated ==
    EchoRead(FALSE) => result = Ok(req.data)

\* C6 as amended: the frame built by send, with its direction byte set to D5,
\* its command byte to cmd + 1 and its DCS recomputed over the changed bytes,
\* parses to the payload sent; with the DCS left as send wrote it the result
\* is CrcError.
C6_RoundTrip ==
    /\ EchoRead(TRUE) => result = Ok(req.data)
    /\ EchoRead(FALSE) => result = Err("CrcError")

\* C6 witness: a two-byte payload came back from the echoed frame.
C6_Witness ==
    /\ EchoRead(TRUE)
    /\ req.data = <<255, 1>>
    /\ result.data = <<255, 1>>

\* ----------------------------------------------- properties of the calls

IsRead(c) == c.call = "read"
IsWrite(c) == c.call = "write"
IsWaitReady(c) == c.call = "wait_ready"
IsElapsed(c) == c.call = "timer_wait" /\ c.res = "elapsed"

\* The writes and reads made, in order; the reads alone.
IO == SelectSeq(calls, IsIO)
Reads == SelectSeq(calls, IsRead)

AckPhase == {"ack_poll", "ack_timer", "ack_wait", "ack_read"}
RespPhase == {"resp_poll", "resp_timer", "resp_wait", "resp_read"}

\* C1: a process call makes one write (the 9 + D bytes of the frame), then
\* one read of 6 bytes, then one read of response_len + 9 bytes, in that
\* order and no other write or read; when the transport delivered the ACK
\* literal and then a valid response, it has made exactly these three and
\* the response read is the last call before it returns.
C1_Sequencing ==
    op = "process" =>
        /\ Len(IO) <= 3
        /\ Len(IO) >= 1 => IsWrite(IO[1]) /\ IO[1].len = 9 + Len(req.data)
        /\ Len(IO) >= 2 => IsRead(IO[2]) /\ IO[2].len = 6
        /\ Len(IO) >= 3 => IsRead(IO[3]) /\ IO[3].len = response_len + 9
        /\ (pc = "done" /\ result.kind = "Ok") =>
               /\ Len(IO) = 3
               /\ IO[2].bytes = <<0, 0, 255, 0, 255, 0>>
               /\ LastCall = IO[3]

\* C1 witness: process returned the two-byte payload of a valid response.
C1_Witness ==
    /\ op = "process"
    /\ pc = "done"
    /\ result.kind = "Ok"
    /\ Len(result.data) = 2
    /\ Len(IO) = 3

\* C2: in every call the ACK read is made only after the write succeeded,
\* the response read only after an ACK read that returned exactly the ACK
\* literal, and after an ACK read that returned anything else (BadAck) no
\* call at all is made; the positions of the call follow the phases: while
\* waiting for the ACK (Sent) only the write has been made, while waiting
\* for the response (AckReceived) only the write and the ACK read.
C2_PhaseOrder ==
    op \in Ops =>
        /\ \A i \in 1..Len(calls) :
            IsRead(calls[i]) =>
                \E j \in 1..(i - 1) : IsWrite(calls[j]) /\ calls[j].res = "ok"
        /\ Len(Reads) >= 2 =>
               /\ Reads[1].res = "ok"
               /\ Reads[1].bytes = <<0, 0, 255, 0, 255, 0>>
        /\ \A i \in 1..Len(calls) :
            (IsRead(calls[i]) /\ calls[i].len = 6 /\ calls[i].res = "ok"
             /\ calls[i].bytes # <<0, 0, 255, 0, 255, 0>>) =>
                /\ i = Len(calls)
                /\ pc = "done"
                /\ result = Err("BadAck")
        /\ pc = "idle" => calls = <<>>
        /\ pc \in AckPhase =>
               Len(IO) = 1 /\ IsWrite(IO[1]) /\ IO[1].res = "ok"
        /\ pc \in RespPhase =>
               /\ Len(IO) = 2
               /\ IsWrite(IO[1]) /\ IO[1].res = "ok"
               /\ IsRead(IO[2]) /\ IO[2].bytes = <<0, 0, 255, 0, 255, 0>>

\* C2 witness: the ACK read returned a NACK frame and the call ended BadAck.
C2_Witness ==
    /\ op = "process"
    /\ pc = "done"
    /\ result = Err("BadAck")
    /\ LastCall.bytes = <<0, 0, 255, 255, 0, 0>>

\* Every wait_ready so far reported pending.
NeverReady == \A i \in 1..Len(calls) : IsWaitReady(calls[i]) => IsPending(calls[i])

\* wait_ready reported ready once, the ACK literal was then read, and every
\* other wait_ready reported pending.
ReadyOnceThenPending ==
    /\ Cardinality({i \in 1..Len(calls) :
                       IsWaitReady(calls[i]) /\ ~IsPending(calls[i])}) = 1
    /\ \E i \in 1..(Len(calls) - 1) :
        /\ IsWaitReady(calls[i]) /\ calls[i].res = "ready"
        /\ IsRead(calls[i + 1]) /\ calls[i + 1].res = "ok"
        /\ calls[i + 1].bytes = <<0, 0, 255, 0, 255, 0>>

Polled == \E i \in 1..Len(calls) : IsWaitReady(calls[i])

SomeElapsed == \E i \in 1..Len(calls) : IsElapsed(calls[i])

\* C7: process returns at the first timer consult that reports elapsed;
\* against a transport that never reports ready that is TimeoutAck with no
\* read made (and it is the only way the call returns), and against a
\* transport that reported ready once, delivered the ACK and is pending
\* since, it is TimeoutResponse with the 6-byte ACK read as only read.
C7_Timeouts ==
    op = "process" =>
        /\ \A i \in 1..Len(calls) :
            IsElapsed(calls[i]) => i = Len(calls) /\ pc = "done"
        /\ (NeverReady /\ SomeElapsed) =>
               result = Err("TimeoutAck") /\ Reads = <<>>
        /\ (Polled /\ NeverReady /\ pc = "done") =>
               result = Err("TimeoutAck") /\ IsElapsed(LastCall)
        /\ (ReadyOnceThenPending /\ SomeElapsed) =>
               /\ result = Err("TimeoutResponse")
               /\ Len(Reads) = 1
               /\ Reads[1].len = 6
        /\ (ReadyOnceThenPending /\ pc = "done") =>
               result = Err("TimeoutResponse") /\ IsElapsed(LastCall)

\* C7 witness: the ACK was read, the transport stayed pending for MaxPolls
\* recorded polls and the call ended TimeoutResponse.
C7_Witness ==
    /\ op = "process"
    /\ pc = "done"
    /\ ReadyOnceThenPending
    /\ PendingPolls(calls) = MaxPolls
    /\ result = Err("TimeoutResponse")

\* No transport call failed and no ACK read returned anything but the ACK.
Undisturbed ==
    \A i \in 1..Len(calls) :
        /\ calls[i].res # "err"
        /\ (IsRead(calls[i]) /\ calls[i].len = 6) =>
               calls[i].bytes = <<0, 0, 255, 0, 255, 0>>

\* C8 as stated: when the timer ran out in the ack phase the call returns
\* TimeoutAck and makes no response read; when it ran out in the response
\* phase the call returns TimeoutResponse.
C8_ExpiryAsStated ==
    (op = "process" /\ pc = "done" /\ Undisturbed) =>
        /\ expiry_pc \in AckPhase =>
               result = Err("TimeoutAck") /\ Len(Reads) <= 1
        /\ expiry_pc \in RespPhase => result = Err("TimeoutResponse")

\* C8 as amended: when a timer consult reports elapsed in the ack phase (no
\* read made yet) the call returns TimeoutAck and never makes a response
\* read; when a consult reports elapsed in the response phase (ACK read) it
\* returns TimeoutResponse. TimeoutAck is returned only when the timer ran
\* out in the ack phase, TimeoutResponse only when it ran out in either.
C8_ObservedExpiry ==
    op = "process" =>
        /\ \A i \in 1..Len(calls) :
            IsElapsed(calls[i]) =>
                /\ pc = "done"
                /\ Reads = <<>> => result = Err("TimeoutAck")
                /\ Reads # <<>> =>
                       /\ result = Err("TimeoutResponse")
                       /\ Len(Reads) = 1
                       /\ Reads[1].len = 6
        /\ result = Err("TimeoutAck") =>
               IsElapsed(LastCall) /\ expiry_pc \in AckPhase
        /\ result = Err("TimeoutResponse") =>
               IsElapsed(LastCall) /\ expiry_pc \in AckPhase \cup RespPhase

\* C8 witness: the timer ran out in the ack phase, unobserved; the expiry
\* was observed in the response phase and the call ended TimeoutResponse.
C8_Witness ==
    /\ op = "process"
    /\ pc = "done"
    /\ expiry_pc \in AckPhase
    /\ result = Err("TimeoutResponse")

\* A blocking call is in flight; it has returned or panicked.
InFlight == op \in Blocking /\ pc \notin {"idle", "done", "panicked"}
Ended == pc \in {"done", "panicked"}

\* C9: every process and process_no_response call ends, given that every
\* transport call returns and the timer runs out: neither wait loop polls
\* for ever; and a call ended by the timer ended with TimeoutAck or
\* TimeoutResponse.
C9_Terminates ==
    /\ []((op \in Blocking /\ pc = "done" /\ IsElapsed(LastCall)) =>
             result \in {Err("TimeoutAck"), Err("TimeoutResponse")})
    /\ (InFlight ~> Ended)

\* C9 witness: process_no_response polled MaxPolls times or more, always
\* pending, and was ended by the timer.
C9_Witness ==
    /\ op = "process_no_response"
    /\ pc = "done"
    /\ PendingPolls(calls) = MaxPolls
    /\ result = Err("TimeoutAck")

\* The errors of parse_response.
ParserErrors == {"BadResponseFrame", "Syntax", "CrcError", "BufTooSmall"}

\* C10: a failed step ends the call at once with its error: a transport
\* call that failed with link error e is the last call made and the call
\* returned InterfaceError(e); so are a bad ACK (BadAck), an elapsed timer
\* consult (a timeout) and the response read (a parser error or the
\* payload); every error returned has its cause in the last call made; and
\* the request is never written twice.
C10_NoRetry ==
    op \in Ops =>
        /\ Len(SelectSeq(calls, IsWrite)) <= 1
        /\ \A i \in 1..Len(calls) :
            /\ calls[i].res = "err" =>
                   /\ i = Len(calls)
                   /\ pc = "done"
                   /\ result.kind = "Err"
                   /\ result.err = "InterfaceError"
                   /\ result.e = calls[i].e
            /\ (IsRead(calls[i]) /\ calls[i].len = 6 /\ calls[i].res = "ok"
                /\ calls[i].bytes # <<0, 0, 255, 0, 255, 0>>) =>
                   i = Len(calls) /\ pc = "done" /\ result = Err("BadAck")
            /\ IsElapsed(calls[i]) =>
                   /\ i = Len(calls)
                   /\ pc = "done"
                   /\ result \in {Err("TimeoutAck"), Err("TimeoutResponse")}
            /\ (IsRead(calls[i]) /\ \E j \in 1..(i - 1) : IsRead(calls[j])) =>
                   i = Len(calls) /\ pc = "done"
        /\ result.kind = "Err" =>
               /\ pc = "done"
               /\ result.err = "InterfaceError" =>
                      LastCall.res = "err" /\ LastCall.e = result.e
               /\ result.err = "BadAck" =>
                      IsRead(LastCall) /\ LastCall.len = 6
               /\ result.err \in {"TimeoutAck", "TimeoutResponse"} =>
                      IsElapsed(LastCall)
               /\ result.err \in ParserErrors =>
                      /\ IsRead(LastCall)
                      /\ LastCall.res = "ok"
                      /\ LastCall.len = response_len + 9
                      /\ op # "process_no_response"
               /\ result.err \in ParserErrors \cup
                      {"InterfaceError", "BadAck", "TimeoutAck",
                       "TimeoutResponse"}

\* C10 witness: the response read of process_async failed with link error
\* e2 and the call returned InterfaceError(e2).
C10_Witness ==
    /\ op = "process_async"
    /\ pc = "done"
    /\ Len(Reads) = 2
    /\ LastCall.res = "err"
    /\ result.e = "e2"

\* ------------------------------------------ properties of the primitives

\* C11: receive_ack makes exactly one transport read, of exactly 6 bytes; it
\* returns Ok if and only if the bytes read are 00 00 FF 00 FF 00, BadAck for
\* any other 6 bytes (InterfaceError(e) when the read failed with e); and it
\* leaves the frame buffer as it was.
C11_ReceiveAck ==
    /\ [](op = "receive_ack" =>
            /\ pc = "done"
            /\ Len(calls) = 1
            /\ IsRead(calls[1])
            /\ calls[1].len = 6
            /\ calls[1].res = "ok" =>
                   /\ Len(calls[1].bytes) = 6
                   /\ result = Ok(<<>>) <=>
                          calls[1].bytes = <<0, 0, 255, 0, 255, 0>>
                   /\ calls[1].bytes # <<0, 0, 255, 0, 255, 0>> =>
                          result = Err("BadAck")
            /\ calls[1].res = "err" =>
                   /\ result.err = "InterfaceError"
                   /\ result.e = calls[1].e)
    /\ [][op' = "receive_ack" => buf' = buf]_vars

\* C11 witness: after a send, receive_ack read the first 6 bytes of the error
\* frame, returned BadAck and left the request frame in the buffer.
C11_Witness ==
    /\ op = "receive_ack"
    /\ calls[1].bytes = <<0, 0, 255, 1, 255, 127>>
    /\ result = Err("BadAck")
    /\ wire = <<129, 0>>
    /\ SubSeq(buf, 1, 9) = <<0, 0, 255, 2, 254, 212, 2, 42, 0>>

\* ------------------------------------------ properties of the calls, further

\* C12: process_no_response sends the request and waits for the ACK only: it
\* makes exactly one write, at most one read and that of 6 bytes, never a
\* response read, no call at all after the ACK read; it returns Ok,
\* TimeoutAck, BadAck or InterfaceError and nothing else.
C12_NoResponse ==
    op = "process_no_response" =>
        /\ pc \in AckPhase \cup {"done", "panicked"}
        /\ pc # "panicked" =>
               /\ Len(SelectSeq(calls, IsWrite)) = 1
               /\ IsWrite(IO[1])
               /\ IO[1].len = 9 + Len(req.data)
        /\ Len(Reads) <= 1
        /\ \A i \in 1..Len(calls) :
            IsRead(calls[i]) =>
                /\ calls[i].len = 6
                /\ i = Len(calls)
                /\ pc = "done"
        /\ pc = "done" =>
               \/ result = Ok(<<>>)
               \/ /\ result.kind = "Err"
                  /\ result.err \in {"TimeoutAck", "BadAck", "InterfaceError"}
        /\ result = Ok(<<>>) =>
               /\ Len(Reads) = 1
               /\ Reads[1].bytes = <<0, 0, 255, 0, 255, 0>>

\* C12 witness: process_no_response read the ACK after a pending poll and
\* returned Ok.
C12_Witness ==
    /\ op = "process_no_response"
    /\ pc = "done"
    /\ result = Ok(<<>>)
    /\ \E i \in 1..Len(calls) : IsPending(calls[i])
    /\ IsRead(LastCall)

\* C13: the response read of process (and process_async) asks the transport
\* for exactly response_len + 9 bytes; when the frame the device sends is
\* longer (its payload longer than response_len), the read takes its first
\* response_len + 9 bytes and the bytes beyond them stay unread on the
\* transport.
C13_ReadLen ==
    (op \in {"process", "process_async"} /\ Len(Reads) = 2) =>
        /\ Reads[2].len = response_len + 9
        /\ Reads[2].res = "ok" =>
               /\ Len(Reads[2].bytes) = response_len + 9
               /\ \E f \in DeviceFrames(sent_command) :
                   /\ \A i \in 1..(response_len + 9) :
                       i <= Len(f) => Reads[2].bytes[i] = f[i]
                   /\ Len(f) > response_len + 9 =>
                          /\ Reads[2].bytes \o wire = f
                          /\ Len(wire) = Len(f) - (response_len + 9)
                   /\ Len(f) <= response_len + 9 => wire = <<>>

\* C13 witness: process with response_len = 0 read 9 bytes of a frame that
\* carries a two-byte payload; the last two bytes of the frame were not read.
C13_Witness ==
    /\ op = "process"
    /\ pc = "done"
    /\ response_len = 0
    /\ Len(Reads) = 2
    /\ Reads[2].len = 9
    /\ Reads[2].bytes[4] = 4
    /\ Len(wire) = 2
    /\ wire[2] = 0

\* C14: a call whose request or response_len does not fit the buffer is
\* stopped by a panic before the transport call that would use the buffer:
\* with 9 + D > N the call panics without any write or read made, with
\* response_len + 9 > N it panics without a response read made (the write
\* and the ACK read, which fit, have been made); so every write made has
\* 9 + D <= N bytes, every response read response_len + 9 <= N bytes, and a
\* call panics for no other reason.
C14_PanicBeforeIO ==
    op \in Ops =>
        /\ 9 + Len(req.data) > N =>
               /\ pc = "panicked"
               /\ result = Panic
               /\ IO = <<>>
        /\ response_len + 9 > N =>
               /\ \A i \in 1..Len(Reads) : Reads[i].len = 6
               /\ result.kind # "Ok"
        /\ \A i \in 1..Len(calls) :
            /\ IsWrite(calls[i]) =>
                   calls[i].len = 9 + Len(req.data) /\ calls[i].len <= N
            /\ IsRead(calls[i]) =>
                   \/ calls[i].len = 6
                   \/ calls[i].len = response_len + 9 /\ calls[i].len <= N
        /\ pc = "panicked" =>
               /\ result = Panic
               /\ 9 + Len(req.data) > N \/ response_len + 9 > N
               /\ 9 + Len(req.data) <= N =>
                      /\ Len(IO) = 2
                      /\ LastCall = WaitReadyCall("ready")

\* C14 witness: process with a response_len too large for the buffer wrote
\* the request, read the ACK and panicked when the response was ready.
C14_Witness ==
    /\ op = "process"
    /\ pc = "panicked"
    /\ response_len + 9 > N
    /\ Len(IO) = 2
    /\ IO[2].bytes = <<0, 0, 255, 0, 255, 0>>



\* C15: abort, called before, between or after send, receive_ack and
\* receive_response, makes exactly one transport call, a write of the six
\* bytes 00 00 FF 00 FF 00: no read, no wait_ready, no timer call; it leaves
\* the frame buffer, the timer and the bytes on the transport as they were;
\* it returns Ok, or InterfaceError(e) when the write failed with e.
C15_Abort ==
    /\ [](op = "abort" =>
            /\ pc = "done"
            /\ Len(calls) = 1
            /\ IsWrite(calls[1])
            /\ calls[1].bytes = <<0, 0, 255, 0, 255, 0>>
            /\ calls[1].len = 6
            /\ calls[1].res = "ok" => result = Ok(<<>>)
            /\ calls[1].res = "err" =>
                   /\ result.kind = "Err"
                   /\ result.err = "InterfaceError"
                   /\ result.e = calls[1].e)
    /\ [][op' = "abort" =>
            /\ buf' = buf
            /\ timer' = timer
            /\ wire' = wire
            /\ req' = req]_vars

\* C15 witness: between a receive_ack that left two bytes of an error frame
\* unread and whatever comes next, abort failed with link error e2 and left
\* the request frame in the buffer.
C15_Witness ==
    /\ op = "abort"
    /\ result = InterfaceError("e2")
    /\ wire = <<129, 0>>
    /\ SubSeq(buf, 1, 11) = <<0, 0, 255, 4, 252, 212, 74, 1, 0, 225, 0>>

\* The response frame that answers command c with payload p: 00 00 FF, LEN,
\* LCS, D5, c + 1, p, DCS, 00.
ValidResponse(c, p) ==
    <<0, 0, 255, Len(p) + 2, TwosComplement(Len(p) + 2), 213, c + 1>>
    \o p
    \o <<TwosComplement(213 + c + 1 + SumSeq(p)), 0>>

\* C16: when the device answers a process call for command c with the ACK
\* literal and then a valid response frame (command byte c + 1) whose payload
\* has at most response_len bytes, process returns exactly that payload, LEN - 2
\* bytes long; GET_FIRMWARE_VERSION answered by
\* 00 00 FF 06 FA D5 03 32 01 06 07 E8 00 gives 32 01 06 07.
C16_Payload ==
    /\ (op = "process" /\ pc = "done" /\ Len(Reads) = 2
        /\ Reads[1].bytes = <<0, 0, 255, 0, 255, 0>> /\ Reads[2].res = "ok") =>
           \A p \in SeqsUpTo(PayloadBytes, MaxPayload) :
               (/\ Len(p) <= response_len
                /\ Reads[2].bytes
                       = Fit(ValidResponse(sent_command, p), response_len + 9))
               => /\ result = Ok(p)
                  /\ Len(result.data) = Reads[2].bytes[4] - 2
    /\ ValidResponse(2, <<50, 1, 6, 7>>)
           = <<0, 0, 255, 6, 250, 213, 3, 50, 1, 6, 7, 232, 0>>
    /\ parse_response(<<0, 0, 255, 6, 250, 213, 3, 50, 1, 6, 7, 232, 0>>,
                      expected_response_command_of(GetFirmwareVersion))
           = Ok(<<50, 1, 6, 7>>)

\* C16 witness: process with response_len = 2 got the ACK and then a valid
\* frame with the one-byte payload 32, and returned 32.
C16_Witness ==
    /\ op = "process"
    /\ pc = "done"
    /\ response_len = 2
    /\ Len(Reads) = 2
    /\ Reads[2].bytes = Fit(ValidResponse(sent_command, <<50>>), 11)
    /\ result = Ok(<<50>>)

\* ------------------------------------------- properties of the codec, further

\* The buffer b holds a frame that ends before the view does: its preamble
\* and length checksum are right, its LEN is 2 or more and its postamble
\* index 6 + LEN is not the last index of b.
FrameShorter(b) ==
    /\ PreambleOk(b)
    /\ LcsOk(b)
    /\ b[4] >= 2
    /\ 7 + b[4] < Len(b)

\* C17 as stated: a frame shorter than the response_len + 9 bytes parsed has
\* its postamble index on a non-zero byte and is rejected as
\* BadResponseFrame.
C17_ShorterAsStated ==
    (Parsed /\ FrameShorter(LastCall.bytes)) =>
        /\ LastCall.bytes[7 + LastCall.bytes[4]] # 0
        /\ result = Err("BadResponseFrame")

\* C17 as amended: the postamble index is 6 + LEN, taken from the frame and
\* not from response_len, so a frame shorter than the response_len + 9 bytes
\* parsed is judged as it would be alone, whatever bytes follow it: a valid
\* one is accepted and its LEN - 2 payload bytes returned; BadResponseFrame
\* is the result only when the byte at 6 + LEN is not zero or the direction
\* or command byte is wrong.
C17_ShorterFrame ==
    (Parsed /\ FrameShorter(LastCall.bytes)) =>
        LET b == LastCall.bytes
            alone == SubSeq(b, 1, 7 + b[4])
        IN  /\ result = parse_response(alone, sent_command + 1)
            /\ (b[7 + b[4]] = 0 /\ EchoOk(b, sent_command) /\ DcsOk(b)) =>
                   result = Ok(SubSeq(b, 8, 5 + b[4]))
            /\ result = Err("BadResponseFrame") <=>
                   b[7 + b[4]] # 0 \/ ~EchoOk(b, sent_command)

\* C17 witness: receive_response with response_len = 2 read a valid frame
\* without payload followed by two non-zero bytes, and accepted it.
C17_Witness ==
    /\ Parsed
    /\ op = "receive_response"
    /\ response_len = 2
    /\ LastCall.bytes[4] = 2
    /\ LastCall.bytes[10] # 0
    /\ LastCall.bytes[11] # 0
    /\ result = Ok(<<>>)





\* ---------------------------------------- properties of the driver used again

\* What a driver just constructed (buf all zero) writes for request r, and
\* what it returns from the response read of the bytes got.
FreshWrite(r) == Slice(BufAfterSend(Zeros(N), r), 0, 9 + Len(r.data))
FreshResponse(r, rl, got) ==
    parse_response(
        Slice(BufAfterReceive(BufAfterSend(Zeros(N), r), got), 0, rl + 9),
        r.command + 1)

\* What a call o on a driver just constructed returns after the transport
\* and timer calls of log, the last of which ended it.
FreshResult(o, r, rl, log) ==
    LET last == log[Len(log)]
        reads == SelectSeq(log, IsRead)
    IN  IF last.res = "err" THEN InterfaceError(last.e)
        ELSE IF IsElapsed(last)
            THEN IF reads = <<>> THEN Err("TimeoutAck")
                 ELSE Err("TimeoutResponse")
        ELSE IF Len(reads) = 1
            THEN IF last.bytes # <<0, 0, 255, 0, 255, 0>> THEN Err("BadAck")
                 ELSE Ok(<<>>)
        ELSE FreshResponse(r, rl, last.bytes)

\* C18: a call made after calls that ended with an error goes as it would on
\* a driver just constructed, whatever the earlier calls left in buf: the
\* bytes it writes are those a new driver writes for the request, its reads
\* ask for 6 and response_len + 9 bytes, its position follows from the
\* transport calls made, and its result is the one a new driver returns for
\* the same transport behaviour; after an error the driver is at rest and
\* takes the next call.
C18_Reuse ==
    op \in Ops =>
        /\ \A i \in 1..Len(calls) :
            IsWrite(calls[i]) =>
                /\ calls[i].bytes = FreshWrite(req)
                /\ \A j \in 1..(i - 1) : ~IsIO(calls[j])
        /\ Len(Reads) <= 2
        /\ \A k \in 1..Len(Reads) :
            Reads[k].len = IF k = 1 THEN 6 ELSE response_len + 9
        /\ pc \in AckPhase => Len(IO) = 1
        /\ pc \in RespPhase => Len(IO) = 2
        /\ pc = "done" =>
               /\ result = FreshResult(op, req, response_len, calls)
               /\ result.kind = "Err" => ENABLED Again

\* C18 witness: after a call that ended with an error, process sent a
\* request of 9 bytes and read a response of 9 bytes into a buffer whose
\* tenth byte still held a byte of the earlier call, and returned the payload.
C18_Witness ==
    /\ op = "process"
    /\ pc = "done"
    /\ req.data = <<>>
    /\ response_len = 0
    /\ buf[10] # 0
    /\ result = Ok(<<>>)



\* ------------------------------------------ process_async against process

IsTransport(c) == c.call \in {"write", "wait_ready", "read"}
IsTimer(c) == c.call \in {"timer_start", "timer_wait"}

\* The transport calls made, in order (the timer calls left out).
Transport == SelectSeq(calls, IsTransport)

\* The transport call that is due after the transport calls T of a call that
\* has not returned: a poll after the write, after a pending poll and after
\* the ACK read; a read after a poll that reported ready.
Due(T) ==
    LET last == T[Len(T)]
    IN  IF IsWaitReady(last) /\ last.res = "ready" THEN "read" ELSE "wait_ready"

\* What the call returns after the transport calls T, the last of which
\* ended it without a timeout, for request r and response_len rl.
Outcome(r, rl, T) ==
    LET last == T[Len(T)]
        reads == SelectSeq(T, IsRead)
    IN  IF last.res = "err" THEN InterfaceError(last.e)
        ELSE IF Len(reads) = 1 THEN Err("BadAck")
        ELSE parse_response(last.bytes, r.command + 1)

Timeouts == {Err("TimeoutAck"), Err("TimeoutResponse")}

\* C19: process_async is process without the timer. In both, the transport
\* calls are the write of the frame, polls, the 6-byte read, polls, the read
\* of response_len + 9 bytes; the call that is made next and the result
\* returned follow from the request, response_len and the transport calls
\* made so far in the same way (Due, Outcome), unless process times out;
\* process_async makes no timer call and never returns TimeoutAck or
\* TimeoutResponse.
C19_AsyncAsBlocking ==
    /\ [](op \in {"process", "process_async"} =>
            /\ pc \in {"ack_poll", "ack_timer", "ack_wait",
                      "resp_poll", "resp_timer", "resp_wait"} =>
                   Due(Transport) = "wait_ready"
            /\ pc \in {"ack_read", "resp_read"} => Due(Transport) = "read"
            /\ pc \in AckPhase => Len(IO) = 1
            /\ pc \in RespPhase => Len(IO) = 2
            /\ \A i \in 1..Len(Transport) :
                /\ IsWrite(Transport[i]) =>
                       i = 1 /\ Transport[i].bytes = FreshWrite(req)
                /\ IsRead(Transport[i]) =>
                       /\ IsWaitReady(Transport[i - 1])
                       /\ Transport[i - 1].res = "ready"
                       /\ Transport[i].len = IF Len(IO) = 2 \/ i < Len(Transport)
                                             THEN 6 ELSE response_len + 9
            /\ (pc = "done" /\ result \notin Timeouts) =>
                   result = Outcome(req, response_len, Transport)
            /\ op = "process_async" =>
                   /\ result \notin Timeouts
                   /\ \A i \in 1..Len(calls) : ~IsTimer(calls[i])
                   /\ pc \notin {"ack_timer", "resp_timer"}
            /\ result \in Timeouts => IsElapsed(LastCall))
    /\ [][(op \in {"process", "process_async"} /\ Transport' # Transport) =>
            /\ Len(Transport') = Len(Transport) + 1
            /\ Transport'[Len(Transport')].call = Due(Transport)]_vars

\* C19 witness: process_async, polled pending in both phases, read the ACK
\* and a valid response and returned its payload.
C19_Witness ==
    /\ op = "process_async"
    /\ pc = "done"
    /\ result.kind = "Ok"
    /\ Len(result.data) = 1
    /\ \E i, j \in 1..Len(calls) :
        /\ i < j
        /\ IsPending(calls[i]) /\ IsPending(calls[j])
        /\ \E k \in (i + 1)..(j - 1) : IsRead(calls[k])

Suspended == {"ack_wait", "resp_wait"}

AsyncInFlight == op = "process_async" /\ pc \in AckPhase \cup RespPhase

\* C20: in process_async the only suspension points are the two wait-ready
\* polls. Each poll makes exactly one wait_ready call; it leaves the call
\* where it is (pending) exactly when that call reports pending, and the
\* waker has then been woken, so that the task is polled again; a call is
\* suspended nowhere else. Hence, polled by a fair executor against a
\* transport that reports ready in each phase in the end, process_async
\* returns.
C20_Suspension ==
    /\ [][(op = "process_async" /\ pc \in {"ack_poll", "resp_poll"}) =>
            /\ \/ calls' = Append(calls, WaitReadyCall("pending"))
               \/ /\ calls' = calls
                  /\ PendingPolls(calls) = MaxPolls
               \/ /\ calls' = Append(calls, calls'[Len(calls')])
                  /\ IsWaitReady(calls'[Len(calls')])
                  /\ ~IsPending(calls'[Len(calls')])
            /\ pc' \in Suspended <=> IsPending(calls'[Len(calls')])
            /\ pc' \in Suspended => woken'
            /\ UNCHANGED <<buf, wire, timer>>]_vars
    /\ [][(op = "process_async" /\ pc \in Suspended) =>
            /\ woken
            /\ pc = "ack_wait" => pc' = "ack_poll"
            /\ pc = "resp_wait" => pc' = "resp_poll"
            /\ UNCHANGED <<buf, wire, timer, calls, result>>]_vars
    /\ [](AsyncInFlight =>
            /\ pc \in Suspended => woken /\ IsPending(LastCall)
            /\ pc \in {"ack_read", "resp_read"} =>
                   IsWaitReady(LastCall) /\ LastCall.res = "ready")
    /\ (AsyncInFlight ~> pc \in {"done", "panicked"})

\* C20 witness: process_async was polled pending MaxPolls times or more in
\* the ack phase and again in the response phase, and returned a payload.
C20_Witness ==
    /\ op = "process_async"
    /\ pc = "done"
    /\ result.kind = "Ok"
    /\ Cardinality({i \in 1..Len(calls) : IsPending(calls[i])}) = 2 * MaxPolls





\* ------------------------------------------------ reads and the ready poll

\* C21: in process, process_no_response and process_async every transport
\* read comes directly after a wait_ready that returned Ready(Ok(())), no
\* call of any kind in between; a poll that returned Pending or Ready(Err)
\* is never followed by a read, and the call stands before a read only
\* when its last call is such a ready poll.
C21_ReadAfterReady ==
    op \in Ops =>
        /\ \A i \in 1..Len(calls) :
            IsRead(calls[i]) =>
                /\ i > 1
                /\ IsWaitReady(calls[i - 1])
                /\ calls[i - 1].res = "ready"
        /\ \A i \in 1..(Len(calls) - 1) :
            (IsWaitReady(calls[i]) /\ calls[i].res \in {"pending", "err"}) =>
                ~IsRead(calls[i + 1])
        /\ pc \in {"ack_read", "resp_read"} =>
               IsWaitReady(LastCall) /\ LastCall.res = "ready"
        /\ (calls # <<>> /\ IsWaitReady(LastCall) /\ LastCall.res = "err") =>
               pc = "done" /\ result = InterfaceError(LastCall.e)

\* C21 witness: a call made both its reads, the second after a poll that had
\* reported pending before it reported ready.
C21_Witness ==
    /\ op \in Ops
    /\ pc = "done"
    /\ Len(Reads) = 2
    /\ \E i \in 1..(Len(calls) - 2) :
        /\ IsPending(calls[i])
        /\ IsRead(calls[Len(calls)])
        /\ \E j \in 1..(i - 1) : IsRead(calls[j])

\* ------------------------------------------------- polls and timer consults

\* Index of the last write or read before call i (0 when there is none):
\* the phase of call i starts after it.
PhaseStart(i) ==
    LET S == {j \in 1..(i - 1) : IsIO(calls[j])}
    IN  IF S = {} THEN 0 ELSE CHOOSE j \in S : \A k \in S : k <= j

\* The pending polls and the timer consults of its phase made before call i.
PendingsBefore(i) ==
    Cardinality({k \in (PhaseStart(i) + 1)..(i - 1) : IsPending(calls[k])})
ConsultsBefore(i) ==
    Cardinality({k \in (PhaseStart(i) + 1)..(i - 1) :
                    calls[k].call = "timer_wait"})

\* C22: in process, when wait_ready reports ready after K pending polls of
\* the same phase, timer.wait() was consulted at least K times in that
\* phase (once after each pending poll, each consult reporting that the
\* countdown still runs).
C22_ConsultPerPending ==
    op = "process" =>
        /\ \A i \in 1..Len(calls) :
            (IsWaitReady(calls[i]) /\ calls[i].res = "ready") =>
                /\ ConsultsBefore(i) >= PendingsBefore(i)
                /\ \A k \in (PhaseStart(i) + 1)..(i - 1) :
                    calls[k].call = "timer_wait" =>
                        calls[k].res = "would_block"
        /\ \A i \in 1..(Len(calls) - 1) :
            IsPending(calls[i]) => calls[i + 1].call = "timer_wait"

\* C22 witness: in the response phase of process, wait_ready reported ready
\* after MaxPolls pending polls.
C22_Witness ==
    /\ op = "process"
    /\ \E i \in 1..Len(calls) :
        /\ IsWaitReady(calls[i]) /\ calls[i].res = "ready"
        /\ PhaseStart(i) > 0
        /\ IsRead(calls[PhaseStart(i)])
        /\ PendingsBefore(i) = MaxPolls
        /\ ConsultsBefore(i) = MaxPolls

\* --------------------------------------------------- one timer for the call

IsTimerStart(c) == c.call = "timer_start"

\* C23: the timeout covers the whole call: process and process_no_response
\* start the timer exactly once, as their first call and so before the
\* frame is written, and nothing restarts it afterwards; a countdown that
\* ran out stays run out through the ACK phase and the response phase.
C23_OneTimer ==
    [][ /\ (op' \in Blocking /\ pc' # "idle") =>
              /\ Len(calls') >= 1
              /\ IsTimerStart(calls'[1])
              /\ \A i \in 2..Len(calls') : ~IsTimerStart(calls'[i])
              /\ timer' \in {"running", "elapsed"}
        /\ (op \in Blocking /\ pc # "idle") =>
              /\ timer = "elapsed" => timer' = "elapsed"
              /\ timer' \in {"running", "elapsed"}
      ]_vars

\* C23 witness: the countdown ran out during the ACK phase, the ACK was
\* still read, and the call ended in its response phase with
\* TimeoutResponse, no second start in between.
C23_Witness ==
    /\ op = "process"
    /\ pc = "done"
    /\ expiry_pc \in AckPhase
    /\ result = Err("TimeoutResponse")
    /\ Len(Reads) = 1
    /\ Cardinality({i \in 1..Len(calls) : IsTimerStart(calls[i])}) = 1

\* ------------------------------------------------- one byte of a frame damaged

\* receive_response accepted a buffer and then parsed the same buffer with
\* the byte at index At (counted from 1) changed.
Reparsed ==
    /\ Parsed
    /\ Len(calls) = 2
    /\ calls[1].call = "read" /\ calls[1].res = "ok"
    /\ Accepted(calls[1].bytes, sent_command)
    /\ Cardinality({i \in 1..Len(LastCall.bytes) :
                       LastCall.bytes[i] # calls[1].bytes[i]}) = 1

At ==
    CHOOSE i \in 1..Len(LastCall.bytes) :
        LastCall.bytes[i] # calls[1].bytes[i]

\* The change is one inverted bit.
OneBit == \E k \in 0..7 : LastCall.bytes[At] = FlipBit(calls[1].bytes[At], k)

\* LEN of the frame that was accepted; it fills indices 1..7 + LEN.
GoodLen == calls[1].bytes[4]

\* C24 as stated: any single bit of a valid response buffer inverted makes
\* parse_response fail.
C24_AnyBitAsStated ==
    (Reparsed /\ OneBit) => result.kind = "Err"

\* C24 as amended: a single bit inverted within the frame (preamble to
\* postamble, indices 0..6 + LEN) makes parse_response fail: in the
\* preamble, LEN, LCS, direction byte, command byte or postamble with one of
\* BadResponseFrame, CrcError, Syntax (BadResponseFrame but for LEN and LCS,
\* which give CrcError), in the payload or the DCS, as any change of one of
\* their bytes, with CrcError. The bytes of the buffer behind the postamble
\* are not looked at: a change there leaves the result what it was.
C24_BitFlip ==
    Reparsed =>
        /\ (OneBit /\ At <= 7 + GoodLen) => result.kind = "Err"
        /\ (OneBit /\ (At <= 7 \/ At = 7 + GoodLen)) =>
               result \in {Err("BadResponseFrame"), Err("CrcError"),
                           Err("Syntax")}
        /\ (At <= 3 \/ At \in {6, 7} \/ At = 7 + GoodLen) =>
               result = Err("BadResponseFrame")
        /\ At \in {4, 5} => result = Err("CrcError")
        /\ (At >= 8 /\ At <= 6 + GoodLen) => result = Err("CrcError")
        /\ At > 7 + GoodLen =>
               result = Ok(SubSeq(calls[1].bytes, 8, 5 + GoodLen))

\* C24 witness: one bit of a payload byte of an accepted frame was inverted
\* and the buffer rejected with CrcError.
C24_Witness ==
    /\ Reparsed
    /\ OneBit
    /\ GoodLen >= 3
    /\ At = 8
    /\ result = Err("CrcError")

\* ----------------------------------------------------- the postamble cut off

\* The buffer b starts a frame whose postamble lies beyond it: preamble and
\* length checksum are right, LEN is 2 or more, and the rl + 9 bytes of b end
\* before index 6 + LEN, which is when LEN - 2 > rl.
Truncated(b, rl) ==
    /\ PreambleOk(b)
    /\ LcsOk(b)
    /\ b[4] >= 2
    /\ b[4] - 2 > rl

\* C25: a frame right in preamble, LEN and LCS with LEN >= 2 whose
\* postamble index 6 + LEN is not within the response_len + 9 bytes parsed
\* (LEN - 2 > response_len) gives BufTooSmall, never a success and never
\* another error, whatever its other bytes are; and BufTooSmall is given for
\* no other buffer.
C25_BufTooSmall ==
    Parsed =>
        /\ Truncated(LastCall.bytes, response_len) <=>
               ~PostambleThere(LastCall.bytes)
                  /\ PreambleOk(LastCall.bytes) /\ LcsOk(LastCall.bytes)
                  /\ LastCall.bytes[4] >= 2
        /\ Truncated(LastCall.bytes, response_len) =>
               result = Err("BufTooSmall")
        /\ result = Err("BufTooSmall") =>
               Truncated(LastCall.bytes, response_len)

\* C25 witness: receive_response with response_len = 1 read the first ten
\* bytes of a frame with LEN = 4, direction and command byte right, and
\* returned BufTooSmall.
C25_Witness ==
    /\ Parsed
    /\ op = "receive_response"
    /\ response_len = 1
    /\ LastCall.bytes[4] = 4
    /\ Truncated(LastCall.bytes, response_len)
    /\ EchoOk(LastCall.bytes, sent_command)
    /\ result = Err("BufTooSmall")

\* =================================================== the Interface at work
\* The implementations of Interface (spi.rs, i2c.rs, serialport.rs) looked at
\* by themselves: each call makes its operations on the bus, the pin or the
\* port, and the PN532 behind them holds a frame for the host or holds none.

\* i2c.rs
PN532_I2C_READY == 1
I2C_ADDRESS == 36

\* Most Ready(Ok(())) reports counted per frame the device holds ready.
MaxReadies == 3

\* u8::reverse_bits
reverse_bits(b) ==
    LET bit(k) == (b \div (2 ^ k)) % 2
    IN  bit(0) * 128 + bit(1) * 64 + bit(2) * 32 + bit(3) * 16
        + bit(4) * 8 + bit(5) * 4 + bit(6) * 2 + bit(7)

\* spi.rs: const fn as_lsb(byte: u8) -> u8, byte.reverse_bits() with the
\* feature msb-spi, byte without it
as_lsb(byte) == IF msb_spi THEN reverse_bits(byte) ELSE byte

\* spi.rs: the command prefixes and the ready status, as put on the bus
PN532_SPI_STATREAD == as_lsb(2)
PN532_SPI_DATAWRITE == as_lsb(1)
PN532_SPI_DATAREAD == as_lsb(3)
PN532_SPI_READY == as_lsb(1)

\* for byte in frame.iter_mut() { *byte = byte.reverse_bits() } under
\* cfg(feature = "msb-spi")
Reversed(bytes) == [i \in 1..Len(bytes) |-> as_lsb(bytes[i])]

\* One operation on the bus, the pin or the port, as the mocks of the tests
\* list them: op with the address (I2C), the bytes sent tx, the bytes
\* received rx, a count n and how it ended ("ok", "low", "high" or an error).
HalOp(o, addr, tx, rx, n, res) ==
    [op |-> o, addr |-> addr, tx |-> tx, rx |-> rx, n |-> n, res |-> res]

\* A transaction of SpiDevice (chip select asserted to deasserted) or of I2c
\* (start to stop; addr is 0 on SPI) and the operations within it
TransactionStart(addr) == HalOp("transaction_start", addr, <<>>, <<>>, 0, "ok")
TransactionEnd(addr, res) == HalOp("transaction_end", addr, <<>>, <<>>, 0, res)
WriteOp(tx) == HalOp("write", 0, tx, <<>>, Len(tx), "ok")
ReadOp(addr, rx) == HalOp("read", addr, <<>>, rx, Len(rx), "ok")
SpiTransfer(tx, rx) == HalOp("transfer_in_place", 0, tx, rx, Len(tx), "ok")

\* I2c::write and I2c::read
I2cWriteOp(addr, tx, res) == HalOp("i2c_write", addr, tx, <<>>, Len(tx), res)
I2cReadOp(addr, rx, res) == HalOp("i2c_read", addr, <<>>, rx, Len(rx), res)

\* InputPin::is_low
IsLowOp(res) == HalOp("is_low", 0, <<>>, <<>>, 0, res)

\* SerialPort: write_all, bytes_to_read, read_exact
WriteAllOp(tx, res) == HalOp("write_all", 0, tx, <<>>, Len(tx), res)
BytesToReadOp(n, res) == HalOp("bytes_to_read", 0, <<>>, <<>>, n, res)
ReadExactOp(rx, n, res) == HalOp("read_exact", 0, <<>>, rx, n, res)

\* embedded_hal::i2c::ErrorKind, those the model raises
I2cErrors ==
    {"NoAcknowledge(Address)", "NoAcknowledge(Data)", "NoAcknowledge(Unknown)",
     "Bus", "ArbitrationLoss"}

\* The implementations.
SpiKinds == {"SPIInterface", "SPIInterfaceWithIrq"}
I2cKinds == {"I2CInterface", "I2CInterfaceWithIrq"}
Interfaces == SpiKinds \cup I2cKinds \cup {"SerialPortInterface"}

\* ------------------------------------------------------------ the device

\* The PN532 holds a frame for the host.
DeviceReady == device # <<>>

\* Its status byte (SPI status read, leading byte of an I2C read): 0x01 when
\* it holds a frame, another value when it holds none.
StatusBytes == IF DeviceReady THEN {1} ELSE {0, 128}

\* Its IRQ line: low when it holds a frame.
PinLevel == IF DeviceReady THEN "low" ELSE "high"

\* Frames the device comes to hold, frames the host writes, and the lengths
\* of the buffers the host reads into (i2c.rs and spi.rs tests: [1, 2] is
\* written, [3, 4] is read into a buffer of two; 6 and 9 are the buffers of
\* receive_ack and of receive_response with response_len 0).
BusFrames == {<<3, 4>>, ACK, DeviceFrame(GetFirmwareVersion, <<>>)}
BusWrites ==
    {<<1, 2>>, ACK, FrameOf([command |-> GetFirmwareVersion, data |-> <<>>])}
BusReadLens == {2, 6, 9}

\* The device comes to hold a frame: it has answered.
DeviceRespond ==
    /\ interface \in Interfaces
    /\ device = <<>>
    /\ \E f \in BusFrames : device' = f
    /\ readies' = 0
    /\ UNCHANGED <<buf, timer, expiry_pc, op, req, sent_command, response_len,
                   pc, calls, result, wire, woken, interface, irq, msb_spi,
                   hal, ret, decoded>>

\* ------------------------------------------------------------- the calls

\* An Interface call made the operations h, returned r and left the device
\* holding dev; a Ready(Ok(())) report is counted.
Called(h, r, dev) ==
    /\ hal' = h
    /\ ret' = r
    /\ device' = dev
    /\ readies' = IF r.call = "wait_ready" /\ r.res = "ready"
                     /\ readies < MaxReadies
                  THEN readies + 1
                  ELSE readies
    /\ UNCHANGED <<buf, timer, expiry_pc, op, req, sent_command, response_len,
                   pc, calls, result, wire, woken, interface, irq, msb_spi,
                   decoded>>

\* Poll::Ready(Ok(())), Poll::Pending and Poll::Ready(Err(e)) of wait_ready
ReadyOk == Returned("wait_ready", <<>>, "ready", "none", <<>>)
Pending == Returned("wait_ready", <<>>, "pending", "none", <<>>)
ReadyErr(e) == Returned("wait_ready", <<>>, "err", e, <<>>)

\* write: a transaction of Write(&[PN532_SPI_DATAWRITE]) and Write(frame),
\* the frame reversed in place before it with msb-spi
SpiWriteCall ==
    \E frame \in BusWrites, e \in {"ok"} \cup LinkErrors :
        Called(<<TransactionStart(0), WriteOp(<<PN532_SPI_DATAWRITE>>),
                 WriteOp(Reversed(frame)), TransactionEnd(0, e)>>,
               Returned("write", frame, IF e = "ok" THEN "ok" ELSE "err",
                        IF e = "ok" THEN "none" ELSE e, Reversed(frame)),
               device)

\* a status read that takes the first byte received for the status
SpiStatusRead_first_byte ==
    \E e \in {"ok"} \cup LinkErrors, st \in StatusBytes :
        Called(<<TransactionStart(0),
                 SpiTransfer(<<PN532_SPI_STATREAD, 0>>, <<0, as_lsb(st)>>),
                 TransactionEnd(0, e)>>,
               IF e # "ok" THEN ReadyErr(e)
               ELSE IF <<0, as_lsb(st)>>[1] = PN532_SPI_READY THEN ReadyOk
               ELSE Pending,
               device)

\* wait_ready without a pin: buf = [PN532_SPI_STATREAD, 0x00],
\* transfer_in_place(&mut buf)?, ready when buf[1] == PN532_SPI_READY
SpiStatusRead ==
    \E e \in {"ok"} \cup LinkErrors, st \in StatusBytes :
        Called(<<TransactionStart(0),
                 SpiTransfer(<<PN532_SPI_STATREAD, 0>>, <<0, as_lsb(st)>>),
                 TransactionEnd(0, e)>>,
               IF e # "ok" THEN ReadyErr(e)
               ELSE IF as_lsb(st) = PN532_SPI_READY THEN ReadyOk
               ELSE Pending,
               device)

\* What sampling the pin gives: its level or, where the pin can fail, an
\* error.
PinSamples(fallible) == {PinLevel} \cup (IF fallible THEN {"err"} ELSE {})

\* a pin read as ready when high
IrqPoll_inverted(fallible) ==
    \E v \in PinSamples(fallible) :
        Called(<<IsLowOp(v)>>,
               IF v = "low" THEN Pending ELSE ReadyOk,
               device)

\* a failed sample of the pin handed on as the error of the call
IrqPoll_surfaces_error(fallible) ==
    \E v \in PinSamples(fallible) :
        Called(<<IsLowOp(v)>>,
               IF v = "high" THEN Pending
               ELSE IF v = "low" THEN ReadyOk
               ELSE ReadyErr("e1"),
               device)

\* wait_ready with a pin: irq.is_low(), Ready(Ok(())) when low and Pending
\* when high; Err(_) => Poll::Ready(Ok(())) in SPIInterface, unwrap() of an
\* Infallible in SPIInterfaceWithIrq and I2CInterfaceWithIrq
IrqPoll(fallible) ==
    \E v \in PinSamples(fallible) :
        Called(<<IsLowOp(v)>>,
               IF v = "high" THEN Pending ELSE ReadyOk,
               device)

\* a read that hands on the bytes as the bus gave them
SpiReadCall_not_reversed ==
    \E n \in BusReadLens, e \in {"ok"} \cup LinkErrors :
        LET rx == Reversed(Delivered(device, n))
        IN  Called(<<TransactionStart(0), WriteOp(<<PN532_SPI_DATAREAD>>),
                     ReadOp(0, rx), TransactionEnd(0, e)>>,
                   Returned("read", <<n>>, IF e = "ok" THEN "ok" ELSE "err",
                            IF e = "ok" THEN "none" ELSE e, rx),
                   IF e = "ok" THEN <<>> ELSE device)

\* read: a transaction of Write(&[PN532_SPI_DATAREAD]) and Read(buf), then
\* buf reversed in place with msb-spi; the `?` returns before that
SpiReadCall ==
    \E n \in BusReadLens, e \in {"ok"} \cup LinkErrors :
        LET rx == Reversed(Delivered(device, n))
        IN  Called(<<TransactionStart(0), WriteOp(<<PN532_SPI_DATAREAD>>),
                     ReadOp(0, rx), TransactionEnd(0, e)>>,
                   Returned("read", <<n>>, IF e = "ok" THEN "ok" ELSE "err",
                            IF e = "ok" THEN "none" ELSE e,
                            IF e = "ok" THEN Reversed(rx) ELSE rx),
                   IF e = "ok" THEN <<>> ELSE device)

\* impl Interface for SPIInterface<SPI, IRQ>
SPIInterface_write ==
    /\ interface = "SPIInterface"
    /\ SpiWriteCall

SPIInterface_wait_ready ==
    /\ interface = "SPIInterface"
    /\ IF irq = "Some" THEN IrqPoll(TRUE) ELSE SpiStatusRead

SPIInterface_read ==
    /\ interface = "SPIInterface"
    /\ SpiReadCall

\* impl Interface for SPIInterfaceWithIrq<SPI, IRQ>
SPIInterfaceWithIrq_write ==
    /\ interface = "SPIInterfaceWithIrq"
    /\ SpiWriteCall

SPIInterfaceWithIrq_wait_ready ==
    /\ interface = "SPIInterfaceWithIrq"
    /\ IrqPoll(FALSE)

SPIInterfaceWithIrq_read ==
    /\ interface = "SPIInterfaceWithIrq"
    /\ SpiReadCall

\* write: self.i2c.write(I2C_ADDRESS, frame)
I2cWriteCall ==
    \E frame \in BusWrites, e \in {"ok"} \cup I2cErrors :
        Called(<<I2cWriteOp(I2C_ADDRESS, frame, e)>>,
               Returned("write", frame, IF e = "ok" THEN "ok" ELSE "err",
                        IF e = "ok" THEN "none" ELSE e, frame),
               device)

\* e.kind() of the errors that wait_ready takes for "not ready yet"
NotReadyYet_any_nack ==
    {"NoAcknowledge(Address)", "NoAcknowledge(Data)", "NoAcknowledge(Unknown)"}

\* wait_ready: ErrorKind::NoAcknowledge(NoAcknowledgeSource::Address)
\*           | ErrorKind::NoAcknowledge(NoAcknowledgeSource::Unknown)
\*               => Poll::Pending
NotReadyYet == {"NoAcknowledge(Address)", "NoAcknowledge(Unknown)"}

\* wait_ready: let mut buf = [0]
I2cStatusLen == 1

\* wait_ready without a pin: self.i2c.read(I2C_ADDRESS, &mut buf); an error
\* is Pending when NotReadyYet and Ready(Err(e)) otherwise; without error it
\* is Ready(Ok(())) when buf[0] == PN532_I2C_READY, Pending when not
I2cStatusRead ==
    \E e \in {"ok"} \cup I2cErrors, st \in StatusBytes :
        LET rx == IF e = "ok" THEN Fit(<<st>>, I2cStatusLen)
                  ELSE Zeros(I2cStatusLen)
        IN  Called(<<I2cReadOp(I2C_ADDRESS, rx, e)>>,
                   IF e \in NotReadyYet THEN Pending
                   ELSE IF e # "ok" THEN ReadyErr(e)
                   ELSE IF rx[1] = PN532_I2C_READY THEN ReadyOk
                   ELSE Pending,
                   device)

\* a read that hands the leading byte on with the frame
I2cReadCall_keeps_ready_byte ==
    \E n \in BusReadLens, e \in {"ok"} \cup I2cErrors, st \in StatusBytes :
        LET rx == Delivered(<<st>> \o device, n)
        IN  Called(<<TransactionStart(I2C_ADDRESS), ReadOp(I2C_ADDRESS, rx),
                     TransactionEnd(I2C_ADDRESS, e)>>,
                   Returned("read", <<n>>, IF e = "ok" THEN "ok" ELSE "err",
                            IF e = "ok" THEN "none" ELSE e,
                            IF e = "ok" THEN rx ELSE Zeros(n)),
                   IF e = "ok" THEN <<>> ELSE device)

\* read: self.i2c.transaction(I2C_ADDRESS,
\*           &mut [Operation::Read(&mut [0]), Operation::Read(buf)])
\* The device sends its status byte and then the frame; the first goes to
\* the temporary, the bytes after it to buf.
I2cReadCall ==
    \E n \in BusReadLens, e \in {"ok"} \cup I2cErrors, st \in StatusBytes :
        LET rx == Delivered(device, n)
        IN  Called(<<TransactionStart(I2C_ADDRESS), ReadOp(I2C_ADDRESS, <<st>>),
                     ReadOp(I2C_ADDRESS, rx), TransactionEnd(I2C_ADDRESS, e)>>,
                   Returned("read", <<n>>, IF e = "ok" THEN "ok" ELSE "err",
                            IF e = "ok" THEN "none" ELSE e,
                            IF e = "ok" THEN rx ELSE Zeros(n)),
                   IF e = "ok" THEN <<>> ELSE device)

\* impl Interface for I2CInterface<I2C>
I2CInterface_write ==
    /\ interface = "I2CInterface"
    /\ I2cWriteCall

I2CInterface_wait_ready ==
    /\ interface = "I2CInterface"
    /\ I2cStatusRead

I2CInterface_read ==
    /\ interface = "I2CInterface"
    /\ I2cReadCall

\* impl Interface for I2CInterfaceWithIrq<I2C, IRQ>
I2CInterfaceWithIrq_write ==
    /\ interface = "I2CInterfaceWithIrq"
    /\ I2cWriteCall

I2CInterfaceWithIrq_wait_ready ==
    /\ interface = "I2CInterfaceWithIrq"
    /\ IrqPoll(FALSE)

I2CInterfaceWithIrq_read ==
    /\ interface = "I2CInterfaceWithIrq"
    /\ I2cReadCall

\* impl Interface for SerialPortInterface
\* write: self.port.write_all(frame)
SerialPortInterface_write ==
    /\ interface = "SerialPortInterface"
    /\ \E frame \in BusWrites, e \in {"ok"} \cup LinkErrors :
        Called(<<WriteAllOp(frame, e)>>,
               Returned("write", frame, IF e = "ok" THEN "ok" ELSE "err",
                        IF e = "ok" THEN "none" ELSE e, frame),
               device)

\* a wait_ready that takes the bytes off the queue to see whether any are there
SerialPortInterface_wait_ready_draining ==
    /\ interface = "SerialPortInterface"
    /\ \E e \in {"ok"} \cup LinkErrors :
        Called(<<ReadExactOp(device, Len(device), e)>>,
               IF e # "ok" THEN ReadyErr(e)
               ELSE IF Len(device) > 0 THEN ReadyOk
               ELSE Pending,
               <<>>)

\* wait_ready: Ready(Ok(())) when self.port.bytes_to_read()? > 0, Pending
\* when it is 0; the bytes stay in the port's receive queue
SerialPortInterface_wait_ready ==
    /\ interface = "SerialPortInterface"
    /\ \E e \in {"ok"} \cup LinkErrors :
        Called(<<BytesToReadOp(IF e = "ok" THEN Len(device) ELSE 0, e)>>,
               IF e # "ok" THEN ReadyErr(e)
               ELSE IF Len(device) > 0 THEN ReadyOk
               ELSE Pending,
               device)

\* read: self.port.read_exact(buf) takes buf.len() bytes off the receive
\* queue; with fewer there it fails (the port's timeout), what was there
\* lost to the caller
SerialPortInterface_read ==
    /\ interface = "SerialPortInterface"
    /\ \E n \in BusReadLens, e \in {"ok"} \cup LinkErrors :
        /\ e = "ok" => Len(device) >= n
        /\ LET rx == IF e = "ok" THEN SubSeq(device, 1, n) ELSE <<>>
           IN  Called(<<ReadExactOp(rx, n, e)>>,
                      Returned("read", <<n>>,
                               IF e = "ok" THEN "ok" ELSE "err",
                               IF e = "ok" THEN "none" ELSE e,
                               IF e = "ok" THEN rx ELSE Zeros(n)),
                      IF e = "ok" THEN Unread(device, n) ELSE <<>>)

\* Interface::write, wait_ready and read of the implementation in use, and
\* the device answering.
BusNext ==
    \/ SPIInterface_write
    \/ SPIInterface_wait_ready
    \/ SPIInterface_read
    \/ SPIInterfaceWithIrq_write
    \/ SPIInterfaceWithIrq_wait_ready
    \/ SPIInterfaceWithIrq_read
    \/ I2CInterface_write
    \/ I2CInterface_wait_ready
    \/ I2CInterface_read
    \/ I2CInterfaceWithIrq_write
    \/ I2CInterfaceWithIrq_wait_ready
    \/ I2CInterfaceWithIrq_read
    \/ SerialPortInterface_write
    \/ SerialPortInterface_wait_ready
    \/ SerialPortInterface_read
    \/ DeviceRespond

\* An implementation as constructed (SPIInterface::new / new_with_irq, the
\* struct literals of the others), built with or without msb-spi, the
\* device holding nothing yet. No driver call is made.
BusInit ==
    /\ buf = Zeros(N)
    /\ timer = "stopped"
    /\ expiry_pc = "none"
    /\ op = "none"
    /\ req = NoRequest
    /\ sent_command = 0
    /\ response_len = 0
    /\ pc = "idle"
    /\ calls = <<>>
    /\ result = NoResult
    /\ wire = <<>>
    /\ woken = FALSE
    /\ interface \in Interfaces
    /\ irq \in (IF interface = "SPIInterface" THEN {"None", "Some"}
                ELSE IF interface \in {"SPIInterfaceWithIrq",
                                       "I2CInterfaceWithIrq"} THEN {"Some"}
                ELSE {"None"})
    /\ msb_spi \in (IF interface \in SpiKinds THEN BOOLEAN ELSE {FALSE})
    /\ device = <<>>
    /\ hal = <<>>
    /\ ret = NoReturn
    /\ readies = 0
    /\ decoded = NotDecoded

SpecBus == BusInit /\ [][BusNext]_vars

\* --------------------------------------------- properties of the Interface

\* The step is a call of wait_ready (the device did not just come to hold a
\* frame, which leaves the record of the last call as it was).
WaitReadyCalled ==
    /\ ret'.call = "wait_ready"
    /\ ~(device = <<>> /\ device' # <<>>)

\* Every operation of the last call succeeded.
HalOk(h) == \A i \in 1..Len(h) : h[i].res \in {"ok", "low", "high"}

\* The operations that take frame bytes off the device: the data read of SPI
\* (prefix DATAREAD), the two-read transaction of I2C, read_exact.
TakesFrame(h) ==
    \E i \in 1..Len(h) :
        \/ h[i].op \in {"read", "read_exact"}
        \/ h[i].op = "write" /\ h[i].tx = <<PN532_SPI_DATAREAD>>

I2cPolled == interface = "I2CInterface" /\ ret.call = "wait_ready"
StatusOp == hal[1]

\* What C27 holds of every such call whatever the error: one read of one byte
\* from address 0x24; Ready(Ok(())) if and only if it succeeds with 0x01,
\* Pending if it succeeds with another byte.
I2cPollBasics ==
    /\ Len(hal) = 1
    /\ StatusOp.op = "i2c_read"
    /\ StatusOp.addr = 36
    /\ Len(StatusOp.rx) = 1
    /\ ret = ReadyOk <=> (StatusOp.res = "ok" /\ StatusOp.rx = <<1>>)
    /\ (StatusOp.res = "ok" /\ StatusOp.rx # <<1>>) => ret = Pending

\* C27 as stated: a read the device does not acknowledge, on the address or
\* on the data, is Pending, and any other I2C error e is Ready(Err(e)).
C27_NackAsStated ==
    I2cPolled =>
        /\ I2cPollBasics
        /\ StatusOp.res \in {"NoAcknowledge(Address)", "NoAcknowledge(Data)"}
               => ret = Pending
        /\ StatusOp.res \in {"Bus", "ArbitrationLoss"}
               => ret = ReadyErr(StatusOp.res)

\* The failed reads that C27 as amended has reported as Pending.
NackPending == {"NoAcknowledge(Address)", "NoAcknowledge(Unknown)"}

\* C27 as amended: wait_ready of I2CInterface makes one read of one byte from
\* address 0x24; it is Ready(Ok(())) if and only if the read succeeds with
\* 0x01 and Pending if it succeeds with another byte; a read that fails with
\* NoAcknowledge of source Address or Unknown is Pending; every other error
\* e, NoAcknowledge of source Data among them, is Ready(Err(e)).
C27_I2cWaitReady ==
    I2cPolled =>
        /\ I2cPollBasics
        /\ StatusOp.res \in NackPending => ret = Pending
        /\ StatusOp.res \in I2cErrors \ NackPending
               => ret = ReadyErr(StatusOp.res)
        /\ ret = Pending <=>
               \/ StatusOp.res = "ok" /\ StatusOp.rx # <<1>>
               \/ StatusOp.res \in NackPending

\* C27 witness: the device held a frame but did not acknowledge its address,
\* and wait_ready reported Pending.
C27_Witness ==
    /\ I2cPolled
    /\ DeviceReady
    /\ StatusOp.res = "NoAcknowledge(Address)"
    /\ ret = Pending

\* The step is a call of read.
ReadCalled ==
    /\ ret'.call = "read"
    /\ ~(device = <<>> /\ device' # <<>>)

\* C28: read(out) of the I2C implementations is one transaction to address
\* 0x24 made of a read of one byte and a read of out.len() bytes; the
\* leading byte is dropped whatever its value and out holds exactly the
\* bytes that follow it, so that the six bytes got for the ACK compare equal
\* to the ACK frame and the bytes got for a response parse as the response.
C28_I2cRead ==
    [][(ReadCalled /\ interface \in I2cKinds) =>
          LET n == ret'.arg[1]
          IN  /\ Len(hal') = 4
              /\ hal'[1] = TransactionStart(36)
              /\ hal'[2].op = "read" /\ hal'[2].addr = 36
              /\ Len(hal'[2].rx) = 1
              /\ hal'[3].op = "read" /\ hal'[3].addr = 36
              /\ Len(hal'[3].rx) = n
              /\ hal'[4].op = "transaction_end" /\ hal'[4].addr = 36
              /\ ret'.res = "ok" =>
                    /\ ret'.out = hal'[3].rx
                    /\ ret'.out = Delivered(device, n)
                    /\ (device = ACK /\ n = 6) => IsAck(ret'.out)
                    /\ (device = DeviceFrame(GetFirmwareVersion, <<>>)
                        /\ n = 9) =>
                           parse_response(ret'.out, GetFirmwareVersion + 1)
                               = Ok(<<>>)
      ]_vars

\* C28 witness: I2CInterface read the ACK frame into a buffer of six, the
\* leading byte of the transaction being 0x01.
C28_Witness ==
    /\ interface = "I2CInterface"
    /\ ret.call = "read"
    /\ ret.res = "ok"
    /\ Len(hal) = 4
    /\ hal[2].rx = <<1>>
    /\ ret.out = ACK

\* The implementation polls a pin: the two WithIrq structs, and SPIInterface
\* made by new_with_irq.
PollsPin ==
    \/ interface \in {"SPIInterfaceWithIrq", "I2CInterfaceWithIrq"}
    \/ interface = "SPIInterface" /\ irq = "Some"

\* The step is a call of write.
WriteCalled ==
    /\ ret'.call = "write"
    /\ ~(device = <<>> /\ device' # <<>>)

\* The bus operations of write(frame) and of read into n bytes, as the
\* implementations without a pin make them, but for the bytes read and the
\* way the transaction ended.
PlainWrite(h, frame) ==
    IF interface \in SpiKinds
    THEN /\ Len(h) = 4
         /\ h[1] = TransactionStart(0)
         /\ h[2] = WriteOp(<<as_lsb(1)>>)
         /\ h[3] = WriteOp(Reversed(frame))
         /\ h[4].op = "transaction_end"
    ELSE /\ Len(h) = 1
         /\ h[1].op = "i2c_write" /\ h[1].addr = 36 /\ h[1].tx = frame

PlainRead(h, n) ==
    IF interface \in SpiKinds
    THEN /\ Len(h) = 4
         /\ h[1] = TransactionStart(0)
         /\ h[2] = WriteOp(<<as_lsb(3)>>)
         /\ h[3].op = "read" /\ h[3].n = n
         /\ h[4].op = "transaction_end"
    ELSE /\ Len(h) = 4
         /\ h[1] = TransactionStart(36)
         /\ h[2].op = "read" /\ h[2].n = 1
         /\ h[3].op = "read" /\ h[3].n = n
         /\ h[4].op = "transaction_end"

\* C29: in the implementations with an IRQ pin wait_ready samples the pin
\* once (is_low) and touches the bus not at all; a sample that is low is
\* Ready(Ok(())), one that is high is Pending, and the pin of the WithIrq
\* structs cannot fail; write and read make the bus operations they make
\* without a pin.
C29_IrqPoll ==
    [][PollsPin =>
          /\ WaitReadyCalled =>
                /\ Len(hal') = 1
                /\ hal'[1].op = "is_low"
                /\ hal'[1].res = "low" => ret' = ReadyOk
                /\ hal'[1].res = "high" => ret' = Pending
                /\ hal'[1].res \in {"low", "high"} =>
                      (ret' = ReadyOk <=> hal'[1].res = "low")
                /\ interface # "SPIInterface" =>
                      hal'[1].res \in {"low", "high"}
          /\ WriteCalled => PlainWrite(hal', ret'.arg)
          /\ ReadCalled => PlainRead(hal', ret'.arg[1])
      ]_vars

\* C29 witness: I2CInterfaceWithIrq found its pin low and reported
\* Ready(Ok(())), no operation made on the bus.
C29_Witness ==
    /\ interface = "I2CInterfaceWithIrq"
    /\ ret = ReadyOk
    /\ hal = <<IsLowOp("low")>>
    /\ DeviceReady

\* The byte the PN532 takes a byte on the bus for: the PN532 shifts the least
\* significant bit first, a bus built with msb-spi the most significant.
Logical(b) == IF msb_spi THEN reverse_bits(b) ELSE b
LogicalBytes(bytes) == [i \in 1..Len(bytes) |-> Logical(bytes[i])]

\* The operations h are one SPI transaction: a start first, an end last,
\* none in between.
OneTransaction(h) ==
    /\ Len(h) >= 3
    /\ h[1].op = "transaction_start"
    /\ h[Len(h)].op = "transaction_end"
    /\ \A i \in 2..(Len(h) - 1) :
        h[i].op \notin {"transaction_start", "transaction_end"}

\* C30: each call on the SPI implementation is exactly one SPI transaction.
\* write(frame) sends the byte that is 0x01 to the PN532 and then the bytes
\* of the frame; wait_ready (no pin) sends the byte that is 0x02, clocks in
\* one byte and is Ready(Ok(())) if and only if that byte is 0x01 to the
\* PN532, Pending for any other byte, the error of a failed transfer being
\* Ready(Err(e)); read(out) sends the byte that is 0x03 and then clocks in
\* exactly out.len() bytes, which out then holds.
C30_SpiTransactions ==
    (interface \in SpiKinds /\ ret.call # "none"
     /\ ~(PollsPin /\ ret.call = "wait_ready")) =>
        /\ OneTransaction(hal)
        /\ ret.call = "write" =>
              /\ Len(hal) = 4
              /\ hal[2].op = "write" /\ LogicalBytes(hal[2].tx) = <<1>>
              /\ hal[3].op = "write" /\ LogicalBytes(hal[3].tx) = ret.arg
        /\ ret.call = "wait_ready" =>
              /\ Len(hal) = 3
              /\ hal[2].op = "transfer_in_place"
              /\ Len(hal[2].tx) = 2 /\ Len(hal[2].rx) = 2
              /\ Logical(hal[2].tx[1]) = 2
              /\ hal[3].res = "ok" =>
                    /\ ret = ReadyOk <=> Logical(hal[2].rx[2]) = 1
                    /\ ret = Pending <=> Logical(hal[2].rx[2]) # 1
              /\ hal[3].res # "ok" => ret = ReadyErr(hal[3].res)
        /\ ret.call = "read" =>
              /\ Len(hal) = 4
              /\ hal[2].op = "write" /\ LogicalBytes(hal[2].tx) = <<3>>
              /\ hal[3].op = "read" /\ Len(hal[3].rx) = ret.arg[1]
              /\ ret.res = "ok" =>
                    /\ ret.out = LogicalBytes(hal[3].rx)
                    /\ Len(ret.out) = ret.arg[1]

\* C30 witness: SPIInterface without a pin clocked in the status 0x01 in one
\* transaction and reported Ready(Ok(())).
C30_Witness ==
    /\ interface = "SPIInterface"
    /\ irq = "None"
    /\ ret = ReadyOk
    /\ Len(hal) = 3
    /\ hal[2].op = "transfer_in_place"
    /\ Logical(hal[2].rx[2]) = 1

\* ------------------------------------------------------------ the MSB toggle

\* The bytes b, each with its bits in the opposite order.
BitReversed(b) == [i \in 1..Len(b) |-> reverse_bits(b[i])]

\* The step is a call on an SPI implementation built with msb-spi.
MsbCall ==
    /\ interface \in SpiKinds
    /\ msb_spi
    /\ ~(device = <<>> /\ device' # <<>>)

\* C31: with msb-spi every byte the SPI implementation puts on the bus (the
\* prefix of write, of the status read and of read, and every byte of the
\* frame) is the logical byte with its bits reversed, every byte read returns
\* is the byte of the bus with its bits reversed, and the status is compared
\* reversed; reversing twice gives the byte back, so read returns the bytes
\* the device holds and wait_ready reports Ready(Ok(())) exactly when the
\* device holds a frame, as without msb-spi. (The 256 bytes are gone through
\* at the first call made.)
C31_MsbToggle ==
    [][/\ ret.call = "none" =>
             \A b \in Byte : reverse_bits(reverse_bits(b)) = b
       /\ (MsbCall /\ WriteCalled) =>
             /\ hal'[2].tx = <<reverse_bits(1)>>
             /\ hal'[3].tx = BitReversed(ret'.arg)
             /\ BitReversed(hal'[3].tx) = ret'.arg
       /\ (MsbCall /\ WaitReadyCalled /\ ~PollsPin) =>
             /\ hal'[2].tx[1] = reverse_bits(2)
             /\ ret' = ReadyOk <=>
                   (hal'[3].res = "ok" /\ reverse_bits(hal'[2].rx[2]) = 1)
       /\ (MsbCall /\ ReadCalled) =>
             /\ hal'[2].tx = <<reverse_bits(3)>>
             /\ ret'.res = "ok" => ret'.out = BitReversed(hal'[3].rx)
       /\ (interface \in SpiKinds /\ ReadCalled /\ ret'.res = "ok") =>
             ret'.out = Delivered(device, ret'.arg[1])
       /\ (interface \in SpiKinds /\ WaitReadyCalled /\ ~PollsPin
           /\ hal'[3].res = "ok") =>
             /\ ret' = ReadyOk <=> DeviceReady
             /\ ret' = Pending <=> ~DeviceReady
      ]_vars

\* C31 witness: built with msb-spi, read returned the frame the device held,
\* the bytes on the bus being those with the bits reversed.
C31_Witness ==
    /\ interface \in SpiKinds
    /\ msb_spi
    /\ ret.call = "read"
    /\ ret.res = "ok"
    /\ ret.out = DeviceFrame(GetFirmwareVersion, <<>>)
    /\ hal[3].rx = BitReversed(ret.out)
    /\ hal[3].rx # ret.out







\* ======================================================= the error decoder

\* lib.rs: #[repr(u8)] enum ErrorCode, each variant with its discriminant
\* (the value of `code as u8`)
ErrorCode ==
    [Timeout |-> 1, CrcError |-> 2, ParityError |-> 3,
     WrongBitCountDuringAntiCollision |-> 4, FramingError |-> 5,
     AbnormalBitCollision |-> 6, InsufficientCommunicationBuffer |-> 7,
     RfBufferOverflow |-> 9, RfFieldHasNotBeenSwitchedOn |-> 10,
     RfProtocolError |-> 11, Overheating |-> 13,
     InternalBufferOverflow |-> 14, InvalidParameter |-> 16,
     CommandNotSupported |-> 18, WrongDataFormat |-> 19,
     AuthenticationError |-> 20, WrongUidCheckByte |-> 35,
     InvalidDeviceState |-> 37, OperationNotAllowed |-> 38,
     CommandNotAcceptable |-> 39, TargetHasBeenReleased |-> 41,
     CardHasBeenExchanged |-> 42, CardHasDisappeared |-> 43,
     NfcId3InitiatorTargetMismatch |-> 44, OverCurrent |-> 45,
     NadMissing |-> 46]

\* the match of try_from, arm by arm, on v
try_from_arms(v) ==
    CASE v = 1 -> "Timeout"
      [] v = 2 -> "CrcError"
      [] v = 3 -> "ParityError"
      [] v = 4 -> "WrongBitCountDuringAntiCollision"
      [] v = 5 -> "FramingError"
      [] v = 6 -> "AbnormalBitCollision"
      [] v = 7 -> "InsufficientCommunicationBuffer"
      [] v = 9 -> "RfBufferOverflow"
      [] v = 10 -> "RfFieldHasNotBeenSwitchedOn"
      [] v = 11 -> "RfProtocolError"
      [] v = 13 -> "Overheating"
      [] v = 14 -> "InternalBufferOverflow"
      [] v = 16 -> "InvalidParameter"
      [] v = 18 -> "CommandNotSupported"
      [] v = 19 -> "WrongDataFormat"
      [] v = 20 -> "AuthenticationError"
      [] v = 35 -> "WrongUidCheckByte"
      [] v = 37 -> "InvalidDeviceState"
      [] v = 38 -> "OperationNotAllowed"
      [] v = 39 -> "CommandNotAcceptable"
      [] v = 41 -> "TargetHasBeenReleased"
      [] v = 42 -> "CardHasBeenExchanged"
      [] v = 43 -> "CardHasDisappeared"
      [] v = 44 -> "NfcId3InitiatorTargetMismatch"
      [] v = 45 -> "OverCurrent"
      [] v = 46 -> "NadMissing"
      [] OTHER -> "Err(())"

\* a try_from that matches on the whole byte
try_from_unmasked(value) == try_from_arms(value)

\* impl TryFrom<u8> for ErrorCode: let value = value & 0b0011_1111; match value
try_from(value) == try_from_arms(value % 64)

\* ErrorCode::try_from(value) on a status byte
ErrorCode_try_from ==
    /\ \E value \in Byte : decoded' = Decoded(value, try_from(value))
    /\ UNCHANGED <<buf, timer, expiry_pc, op, req, sent_command, response_len,
                   pc, calls, result, wire, woken, link>>

\* ErrorCode::try_from(code as u8) on a code
ErrorCode_as_u8 ==
    /\ \E code \in DOMAIN ErrorCode :
        decoded' = Decoded(ErrorCode[code], try_from(ErrorCode[code]))
    /\ UNCHANGED <<buf, timer, expiry_pc, op, req, sent_command, response_len,
                   pc, calls, result, wire, woken, link>>

ErrorCodeNext ==
    \/ ErrorCode_try_from
    \/ ErrorCode_as_u8

\* Status bytes decoded one after the other; no driver call is made.
SpecErrorCode == Init /\ [][ErrorCodeNext]_vars

\* The low six bits of b.
Low6(b) == b - (b \div 64) * 64

\* The values the decoder names.
ListedCodes ==
    {1, 2, 3, 4, 5, 6, 7, 9, 10, 11, 13, 14, 16, 18, 19, 20, 35, 37, 38, 39,
     41, 42, 43, 44, 45, 46}

\* C32: ErrorCode::try_from(b) depends on the low six bits of b only; it is
\* Ok(code) exactly when they are one of the 26 values listed, the
\* discriminant of code then being that value, and Err(()) for every other
\* value, 0x00 among them; try_from(code as u8) is Ok(code) for each of the
\* 26 codes.
C32_TryFrom ==
    /\ Cardinality(ListedCodes) = 26
    /\ Cardinality(DOMAIN ErrorCode) = 26
    /\ decoded.result # "none" =>
          /\ \A b \in Byte :
                Low6(b) = Low6(decoded.value) => try_from(b) = decoded.result
          /\ decoded.result \in DOMAIN ErrorCode <=>
                Low6(decoded.value) \in ListedCodes
          /\ decoded.result \in DOMAIN ErrorCode =>
                ErrorCode[decoded.result] = Low6(decoded.value)
          /\ decoded.result \notin DOMAIN ErrorCode =>
                decoded.result = "Err(())"
          /\ Low6(decoded.value) = 0 => decoded.result = "Err(())"
          /\ \A code \in DOMAIN ErrorCode :
                decoded.value = ErrorCode[code] => decoded.result = code

\* C32 witness: the status byte 0xAE, the two high bits set, decoded as
\* NadMissing (0x2E).
C32_Witness ==
    /\ decoded.value = 174
    /\ decoded.result = "NadMissing"

\* ======================================================== a longer buffer

\* N of a driver whose buffer admits payloads beyond the 253 bytes that LEN
\* can count (N > 264).
WideN == 266

\* Pn532::new with N = WideN
WideInit ==
    /\ buf = Zeros(WideN)
    /\ timer = "stopped"
    /\ expiry_pc = "none"
    /\ op = "none"
    /\ req = NoRequest
    /\ sent_command = 0
    /\ response_len = 0
    /\ pc = "idle"
    /\ calls = <<>>
    /\ result = NoResult
    /\ wire = <<>>
    /\ woken = FALSE
    /\ interface = "none"
    /\ irq = "None"
    /\ msb_spi = FALSE
    /\ device = <<>>
    /\ hal = <<>>
    /\ ret = NoReturn
    /\ readies = 0
    /\ decoded = NotDecoded

\* send(request) on the buffer of WideN bytes, for a payload of d zero bytes
\* that the buffer admits. `2 + data_len as u8` is u8 arithmetic: the cast
\* keeps the low eight bits of data_len, and the sum beyond 255 panics in a
\* build with overflow checks (before anything is stored) and wraps in one
\* without.
SendWide ==
    /\ pc = "idle"
    /\ \E d \in 0..(WideN - 9), overflow_checks \in BOOLEAN :
        LET r == [command |-> GetFirmwareVersion, data |-> Zeros(d)]
            \* the frame of _send; the zero bytes add nothing to data_sum
            data_sum == wrapping_add(HOST_TO_PN532, r.command)
            frame == PREAMBLE
                     \o <<frame_len_of(r.data), to_checksum(frame_len_of(r.data)),
                          HOST_TO_PN532, r.command>>
                     \o r.data
                     \o <<to_checksum(data_sum), POSTAMBLE>>
        IN  /\ op' = "send"
            /\ req' = r
            /\ sent_command' = r.command
            /\ IF overflow_checks /\ 2 + (d % 256) > 255
               THEN /\ buf' = buf
                    /\ calls' = <<>>
                    /\ pc' = "panicked"
                    /\ result' = Panic
               ELSE \E w \in WriteOutcomes :
                    /\ buf' = frame \o SubSeq(buf, 10 + d, WideN)
                    /\ calls' = <<WriteCall(frame, w)>>
                    /\ Return(IF w = "ok" THEN Ok(<<>>)
                              ELSE InterfaceError(w))
    /\ UNCHANGED <<timer, expiry_pc, response_len, wire, woken, link,
                   decoded>>

\* A driver with the longer buffer and the first send called on it.
SpecWide == WideInit /\ [][SendWide]_vars

\* C33 as stated: every frame send hands to the transport for a payload of D
\* bytes that the buffer admits has 9 + D bytes, the LEN byte D + 2 and the
\* LCS byte its two's complement; no frame carries D + 2 cut to eight bits.
C33_LenAsStated ==
    \A i \in 1..Len(calls) :
        calls[i].call = "write" =>
            LET w == calls[i].bytes
                D == Len(req.data)
            IN  /\ Len(w) = 9 + D
                /\ w[4] = D + 2
                /\ w[5] = TwosComplement(w[4])







\* ------------------------------------------- where the timer is consulted

NoPendingPoll == \A i \in 1..Len(calls) : ~IsPending(calls[i])

NoConsult == \A i \in 1..Len(calls) : calls[i].call # "timer_wait"

\* C34: in process and process_no_response timer.wait() is called only right
\* after a wait_ready that reported pending, once for each such poll (the
\* record keeps MaxPolls pending polls of a phase: the consult after a poll
\* beyond them follows the consult before it). A call none of whose polls
\* reported pending makes no consult and does not time out, whether or not
\* the countdown ran out meanwhile; and a call that returns TimeoutAck has
\* started the timer, written the frame and polled wait_ready first.
C34_ConsultOnlyAfterPending ==
    op \in Blocking =>
        /\ \A i \in 1..Len(calls) :
            calls[i].call = "timer_wait" =>
                /\ i > 1
                /\ \/ IsPending(calls[i - 1])
                   \/ /\ calls[i - 1].call = "timer_wait"
                      /\ PendingsBefore(i) = MaxPolls
        /\ \A i \in 1..(Len(calls) - 1) :
            IsPending(calls[i]) => calls[i + 1].call = "timer_wait"
        /\ NoPendingPoll =>
              /\ NoConsult
              /\ result \notin {Err("TimeoutAck"), Err("TimeoutResponse")}
        /\ result = Err("TimeoutAck") =>
              /\ Len(calls) >= 4
              /\ calls[1] = TimerStartCall
              /\ IsWrite(calls[2]) /\ calls[2].res = "ok"
              /\ IsPending(calls[3])
              /\ calls[4].call = "timer_wait"
              /\ IsElapsed(LastCall)

\* C34 witness: the countdown ran out before the first poll, every poll
\* reported ready, and process returned the payload without a consult.
C34_Witness ==
    /\ op = "process"
    /\ pc = "done"
    /\ timer = "elapsed"
    /\ expiry_pc = "ack_poll"
    /\ result.kind = "Ok"
    /\ NoPendingPoll
    /\ NoConsult

\* --------------------------------------------------- no phase is kept

\* C35: the driver keeps no phase of a transaction. Whenever no call is in
\* flight (before any call, after send, after an ACK or none, after an error)
\* send, receive_ack, receive_response and abort can each be called, and the
\* call makes its transport operation whatever came before: send writes the
\* frame of its request, receive_ack reads 6 bytes, receive_response reads
\* response_len + 9 bytes, abort writes the ACK frame.
C35_NoPhase ==
    /\ AtRest =>
          /\ ENABLED SendCall
          /\ ENABLED ReceiveAckCall
          /\ ENABLED ManualReceiveResponse
          /\ ENABLED Abort
    /\ pc = "done" =>
          /\ Len(calls) = 1
          /\ op = "send" =>
                /\ IsWrite(calls[1])
                /\ calls[1].bytes = FrameOf(req)
          /\ op = "receive_ack" =>
                /\ IsRead(calls[1])
                /\ calls[1].len = 6
          /\ op = "receive_response" =>
                /\ IsRead(calls[1])
                /\ calls[1].len = response_len + 9
          /\ op = "abort" =>
                /\ IsWrite(calls[1])
                /\ calls[1].bytes = <<0, 0, 255, 0, 255, 0>>

\* C35 witness: receive_response read and returned a response on a driver
\* that never sent a request.
C35_Witness ==
    /\ op = "receive_response"
    /\ pc = "done"
    /\ result.kind = "Ok"
    /\ req = NoRequest
    /\ IsRead(LastCall)

\* ------------------------------------------------- where the payload lies

\* C36: when process, process_async or receive_response returns Ok(payload),
\* the payload has LEN - 2 bytes, LEN being byte 3 of the bytes just read,
\* with 0 <= LEN - 2 <= response_len, and it is the bytes just read at the
\* indices 7 .. 4 + LEN, all of them within 7 .. response_len + 6: none of
\* its bytes is one the request sent or an earlier call left in buf.
C36_PayloadWithinRead ==
    (op \in {"process", "process_async", "receive_response"}
     /\ pc = "done" /\ result.kind = "Ok") =>
        /\ IsRead(LastCall)
        /\ LastCall.res = "ok"
        /\ LastCall.len = response_len + 9
        /\ Len(LastCall.bytes) = response_len + 9
        /\ LET LEN == LastCall.bytes[4]
           IN  /\ Len(result.data) = LEN - 2
               /\ 0 <= LEN - 2
               /\ LEN - 2 <= response_len
               /\ \A k \in 1..Len(result.data) :
                    /\ 6 + k >= 7
                    /\ 6 + k <= response_len + 6
                    /\ result.data[k] = LastCall.bytes[7 + k]
                    /\ result.data[k] = buf[7 + k]

\* C36 witness: process wrote a request of 11 bytes and returned the two
\* payload bytes of an answer that fills the bytes read.
C36_Witness ==
    /\ op = "process"
    /\ pc = "done"
    /\ req.data = <<1, 0>>
    /\ response_len = 2
    /\ result.kind = "Ok"
    /\ Len(result.data) = 2
    /\ result.data = SubSeq(LastCall.bytes, 8, 9)



\* ================================================ the driver on a byte stream
\* The driver on SerialPortInterface (HSU): what the PN532 sends queues up in
\* the port, device being the bytes received and not yet read; read_exact
\* takes bytes off the front of the queue and nothing else takes any.

\* Most bytes queued in the port.
MaxStream == 17

\* Pn532::new(SerialPortInterface { port }, timer), nothing received yet
StreamInit ==
    /\ buf = Zeros(N)
    /\ timer \in {"stopped", "absent"}
    /\ expiry_pc = "none"
    /\ op = "none"
    /\ req = NoRequest
    /\ sent_command = 0
    /\ response_len = 0
    /\ pc = "idle"
    /\ calls = <<>>
    /\ result = NoResult
    /\ wire = <<>>
    /\ woken = FALSE
    /\ interface = "SerialPortInterface"
    /\ irq = "None"
    /\ msb_spi = FALSE
    /\ device = <<>>
    /\ hal = <<>>
    /\ ret = NoReturn
    /\ readies = 0
    /\ decoded = NotDecoded

\* The PN532 sends a frame (an ACK, an answer without payload, an answer
\* with two payload bytes), at any time: in answer to the request, or late.
StreamDeliver ==
    /\ \E f \in {ACK, DeviceFrame(GetFirmwareVersion, <<>>),
                 DeviceFrame(GetFirmwareVersion, <<50, 1>>)} :
        /\ Len(device) + Len(f) <= MaxStream
        /\ device' = device \o f
    /\ UNCHANGED <<buf, timer, expiry_pc, op, req, sent_command, response_len,
                   pc, calls, result, wire, woken, interface, irq, msb_spi,
                   hal, ret, readies, decoded>>

\* A caller starts a call for GetFirmwareVersion with response_len 0, on the
\* driver new or used: timer.start, _send; the receive queue is not touched.
StreamProcess ==
    /\ AtRest
    /\ \E o \in Ops :
        Begin(o, [command |-> GetFirmwareVersion, data |-> <<>>], 0)

\* wait_ready in either wait: Ready(Ok(())) when bytes_to_read() > 0, Pending
\* when it is 0, Ready(Err(e)) when bytes_to_read fails.
StreamPoll ==
    /\ AckPoll \/ RespPoll
    /\ pc' \in {"ack_read", "resp_read"} => device # <<>>
    /\ pc' \in {"ack_timer", "ack_wait", "resp_timer", "resp_wait"} =>
          device = <<>>

\* a read that leaves the receive queue empty behind it
StreamRead_draining ==
    /\ \/ /\ pc = "ack_read"
          /\ ReceiveAckFrom(calls, op # "process_no_response",
                            IF Len(device) >= Len(ack_buf) THEN {device}
                            ELSE {})
          /\ buf' = buf
       \/ /\ pc = "resp_read"
          /\ ReceiveResponseStep(calls, sent_command, response_len,
                                 IF Len(device) >= response_buf_len(response_len)
                                 THEN {device} ELSE {})
    /\ device' = <<>>
    /\ UNCHANGED <<timer, expiry_pc, op, req, sent_command, response_len,
                   woken, interface, irq, msb_spi, hal, ret, readies,
                   decoded>>

\* read in receive_ack and receive_response: read_exact(buf) takes buf.len()
\* bytes off the queue; with fewer there, or on an error of the port, it
\* fails, what was there lost to the caller.
StreamRead ==
    /\ \/ /\ pc = "ack_read"
          /\ ReceiveAckFrom(calls, op # "process_no_response",
                            IF Len(device) >= Len(ack_buf) THEN {device}
                            ELSE {})
          /\ buf' = buf
       \/ /\ pc = "resp_read"
          /\ ReceiveResponseStep(calls, sent_command, response_len,
                                 IF Len(device) >= response_buf_len(response_len)
                                 THEN {device} ELSE {})
    /\ device' = IF calls'[Len(calls')].res = "ok" THEN wire' ELSE <<>>
    /\ UNCHANGED <<timer, expiry_pc, op, req, sent_command, response_len,
                   woken, interface, irq, msb_spi, hal, ret, readies,
                   decoded>>

StreamNext ==
    \/ StreamProcess
    \/ StreamPoll
    \/ AckTimer
    \/ AckResume
    \/ RespTimer
    \/ RespResume
    \/ StreamRead
    \/ TimerExpire
    \/ StreamDeliver

\* Calls one after another on one driver and one port.
SpecStream == StreamInit /\ [][StreamNext]_vars

\* The step adds a read to the record of calls.
ReadAdded ==
    /\ Len(calls') = Len(calls) + 1
    /\ IsRead(calls'[Len(calls')])

\* The read added is the first read of its call (the read of receive_ack).
FirstReadAdded == ReadAdded /\ \A i \in 1..Len(calls) : ~IsRead(calls[i])

\* C37: on a byte stream the driver takes bytes off the transport by its two
\* reads only and never drains it: the read of receive_ack takes the next 6
\* bytes of the stream, the read of receive_response the next
\* response_len + 9, and what lies behind them stays; starting a call takes
\* nothing off. Bytes an earlier call left unread are so the first bytes of
\* the next call's ACK read, which is BadAck unless the 6 bytes read are the
\* ACK frame.
C37_NoDrain ==
    [][/\ device' # device =>
             \/ ReadAdded
             \/ /\ Len(device') > Len(device)
                /\ SubSeq(device', 1, Len(device)) = device
       /\ (ReadAdded /\ calls'[Len(calls')].res = "ok") =>
             LET n == IF FirstReadAdded THEN 6 ELSE response_len + 9
             IN  /\ calls'[Len(calls')].len = n
                 /\ Len(device) >= n
                 /\ calls'[Len(calls')].bytes = SubSeq(device, 1, n)
                 /\ device' = SubSeq(device, n + 1, Len(device))
       /\ (FirstReadAdded /\ calls'[Len(calls')].res = "ok") =>
             /\ SubSeq(device, 1, 6) # <<0, 0, 255, 0, 255, 0>> =>
                   pc' = "done" /\ result' = Err("BadAck")
             /\ SubSeq(device, 1, 6) = <<0, 0, 255, 0, 255, 0>> =>
                   result' # Err("BadAck")
      ]_vars

\* C37 witness: an answer of 11 bytes was read with response_len 0, its last
\* two bytes staying in the port; the next call read them and the first four
\* bytes of the ACK as its ACK and returned BadAck.
C37_Witness ==
    /\ op \in Ops
    /\ pc = "done"
    /\ result = Err("BadAck")
    /\ LastCall.bytes =
          SubSeq(DeviceFrame(GetFirmwareVersion, <<50, 1>>), 10, 11)
          \o <<0, 0, 255, 0>>
    /\ device = <<255, 0>>

\* ------------------------------------ when response_len is held against N

\* The wait_ready calls that reported ready, in order.
ReadyPolls ==
    SelectSeq(calls, LAMBDA c : IsWaitReady(c) /\ c.res = "ready")

\* C38: process and process_async hold response_len + 9 against N only when
\* they come to read the response. A call with response_len + 9 > N and a
\* request that fits is taken like any other (the driver as constructed
\* takes it): it writes the frame of the request, and when it panics it has
\* polled wait_ready until ready, read the 6 bytes of the ACK, got the ACK,
\* and polled wait_ready until ready again, the panic standing in place of
\* the response read; it never reads a response and never returns Ok, and
\* ends without a panic only through an error of the earlier steps.
C38_LateCheck ==
    /\ pc = "idle" =>
          \A o \in {"process", "process_async"} :
              (o = "process" <=> timer # "absent") =>
                  ENABLED Start(o, [command |-> GetFirmwareVersion,
                                    data |-> <<>>], MaxResponseLen)
    /\ (op \in {"process", "process_async"}
        /\ response_len + 9 > N /\ 9 + Len(req.data) <= N) =>
          /\ Len(IO) >= 1
          /\ IsWrite(IO[1])
          /\ IO[1].bytes = FrameOf(req)
          /\ \A i \in 1..Len(calls) :
                IsRead(calls[i]) => calls[i].len = 6
          /\ result.kind # "Ok"
          /\ pc = "panicked" =>
                /\ Len(IO) = 2
                /\ IO[1].res = "ok"
                /\ IsRead(IO[2]) /\ IO[2].res = "ok"
                /\ IO[2].bytes = <<0, 0, 255, 0, 255, 0>>
                /\ Len(ReadyPolls) = 2
                /\ IsWaitReady(LastCall) /\ LastCall.res = "ready"
                /\ \E i \in 1..Len(calls) :
                      /\ IsWaitReady(calls[i]) /\ calls[i].res = "ready"
                      /\ i + 1 <= Len(calls) /\ IsRead(calls[i + 1])
          /\ pc = "done" =>
                /\ Len(ReadyPolls) <= 1
                /\ result.err \in {"InterfaceError", "TimeoutAck", "BadAck",
                                   "TimeoutResponse"}

\* C38 witness: process_async with a response_len beyond the buffer wrote
\* the request, read the ACK and panicked when the response was ready.
C38_Witness ==
    /\ op = "process_async"
    /\ pc = "panicked"
    /\ response_len + 9 > N
    /\ Len(IO) = 2
    /\ IO[1].bytes = FrameOf(req)
    /\ IO[2].len = 6

\* ----------------------------------- an ACK or a NACK in place of a response

\* C39: a response read that begins with the ACK frame (00 00 FF 00 FF 00)
\* or with the NACK frame (00 00 FF FF 00 00) is CrcError, neither
\* BadResponseFrame nor BadAck: LEN + LCS is tested before LEN = 0. With the
\* preamble right and LEN = 0 the result is BadResponseFrame exactly when
\* LCS is 0 as well, and CrcError when it is not.
C39_AckAsResponse ==
    Parsed =>
        LET b == LastCall.bytes
        IN  /\ SubSeq(b, 1, 6) = <<0, 0, 255, 0, 255, 0>> =>
                  result = Err("CrcError")
            /\ SubSeq(b, 1, 6) = <<0, 0, 255, 255, 0, 0>> =>
                  result = Err("CrcError")
            /\ result # Err("BadAck")
            /\ (SubSeq(b, 1, 3) = <<0, 0, 255>> /\ b[4] = 0) =>
                  /\ result = Err("BadResponseFrame") <=> b[5] = 0
                  /\ result = Err("CrcError") <=> b[5] # 0

\* C39 witness: receive_response read a NACK frame and returned CrcError.
C39_Witness ==
    /\ Parsed
    /\ op = "receive_response"
    /\ SubSeq(LastCall.bytes, 1, 6) = <<0, 0, 255, 255, 0, 0>>
    /\ result = Err("CrcError")

\* ------------------------------------------------ a pin that cannot be read

\* The last call was wait_ready and its sample of the pin failed.
PinFailed ==
    /\ ret.call = "wait_ready"
    /\ hal = <<IsLowOp("err")>>

\* C40: SPIInterface made with a pin does not hand on a failed sample of the
\* pin: wait_ready then reports Ready(Ok(())), whether the device holds a
\* frame or not, and the read that follows makes its transaction as after
\* any ready report. wait_ready of SPIInterface reports Ready(Err(e)) only
\* without a pin, e being the error of the status transfer.
C40_PinFailure ==
    [][interface = "SPIInterface" =>
          /\ (WaitReadyCalled /\ irq = "Some") =>
                /\ Len(hal') = 1
                /\ hal'[1].op = "is_low"
                /\ hal'[1].res = "err" => ret' = ReadyOk
                /\ ret'.res # "err"
          /\ (WaitReadyCalled /\ ret'.res = "err") =>
                /\ irq = "None"
                /\ Len(hal') = 3
                /\ hal'[2].op = "transfer_in_place"
                /\ hal'[3].res # "ok"
                /\ ret' = ReadyErr(hal'[3].res)
          /\ PinFailed => ret = ReadyOk /\ ENABLED SPIInterface_read
          /\ (PinFailed /\ ReadCalled) =>
                /\ PlainRead(hal', ret'.arg[1])
                /\ ret'.res = "ok" =>
                      ret'.out = Delivered(device, ret'.arg[1])
      ]_vars

\* C40 witness: the pin could not be sampled while the device held nothing,
\* and wait_ready reported Ready(Ok(())).
C40_Witness ==
    /\ interface = "SPIInterface"
    /\ irq = "Some"
    /\ PinFailed
    /\ ret = ReadyOk
    /\ ~DeviceReady



=============================================================================
